---- MODULE Spec2Model ----
(***************************************************************************)
(* A model of the GeekMagic display integration (custom_components/        *)
(* geekmagic): the layout classes of layouts/split.py and                  *)
(* layouts/fullscreen.py, and the widgets of widgets/gauge.py,             *)
(* widgets/status.py, widgets/entity.py, widgets/climate.py and            *)
(* widgets/text.py and widgets/clock.py, and the text platform of          *)
(* entities/text.py.  Each group of classes has its own specification      *)
(* (SpecLayout, SpecGauge, SpecStatus, SpecEntity, SpecClimate, SpecText,  *)
(* SpecClock, SpecPlatform, SpecTextValue) over the same variables.        *)
(*                                                                         *)
(* Numbers.  Pixel quantities are Python ints and are modelled as          *)
(* integers.  Ratios are Python floats; a ratio is modelled as an exact    *)
(* rational [n, d] with d > 0, and int(x * ratio) as the truncation        *)
(* toward zero of the exact quotient.  The ratios the model draws          *)
(* (RatioValues, RatioWeights, DefaultRatios) are ones for which the       *)
(* double-precision result of the source expression equals the exact one   *)
(* for every pixel extent in -520..240.                                    *)
(***************************************************************************)
EXTENDS Integers, Sequences, FiniteSets, TLC

VARIABLES
    call,      \* the constructor call under examination: class and arguments
    layout,    \* the Layout object the call produces
    gauge,     \* the GaugeWidget object: its config and its fields
    drawn,     \* what the last GaugeWidget.render call drew, and from what
    widget,    \* a Status, StatusList, Entity, Climate, Text or Clock widget object
    shown,     \* what the last render call of that widget produced, and from what
    config_entry, \* the config entry: the options it holds
    platform   \* the text platform: the entities it created, the calls made

vars == <<call, layout, gauge, drawn, widget, shown, config_entry, platform>>

layoutVars == <<call, layout>>
gaugeVars == <<gauge, drawn>>
widgetVars == <<widget, shown>>
platformVars == <<config_entry, platform>>

\* No widget constructed yet, and nothing rendered yet.
NoWidget == [cls |-> "none"]
NotShown == [done |-> FALSE]

\* No config entry set up, and no text platform.
NoEntry == [cls |-> "none"]
NoPlatform == [cls |-> "none"]

(***************************************************************************)
(* Bounds of the model.                                                    *)
(***************************************************************************)
MaxPadding == 124
MaxGap == 8
MaxWeight == 2
MaxValueSteps == 6

(***************************************************************************)
(* Program constants.                                                      *)
(***************************************************************************)
DISPLAY_WIDTH == 240
DISPLAY_HEIGHT == 240

\* The step between the entity values the model draws.
ValueStep == 25

(***************************************************************************)
(* Rationals and Python's int(), min() and max().                          *)
(***************************************************************************)
Rat(n, d) == [kind |-> "num", n |-> n, d |-> d]

\* The floats that are no rationals: float("nan"), float("inf"), float("-inf").
NaN == [kind |-> "nan", n |-> 0, d |-> 1]
PosInf == [kind |-> "inf", n |-> 0, d |-> 1]
NegInf == [kind |-> "-inf", n |-> 0, d |-> 1]

\* Python's a < b on floats: false whenever either side is nan.
RatLess(a, b) ==
    CASE a.kind = "nan" \/ b.kind = "nan" -> FALSE
      [] a.kind = "num" /\ b.kind = "num" -> a.n * b.d < b.n * a.d
      [] a.kind = "-inf" -> b.kind # "-inf"
      [] a.kind = "inf" -> FALSE
      [] OTHER -> b.kind = "inf"

\* Equality of two floats as numbers (nan equals nothing).
RatEq(a, b) ==
    /\ a.kind # "nan"
    /\ a.kind = b.kind
    /\ a.kind = "num" => a.n * b.d = b.n * a.d

\* Python's min(a, b): a, unless b < a.
PyMin(a, b) == IF RatLess(b, a) THEN b ELSE a

\* Python's max(a, b): a, unless b > a.
PyMax(a, b) == IF RatLess(a, b) THEN b ELSE a

Abs(x) == IF x < 0 THEN 0 - x ELSE x

\* Python's int() of the quotient n / d (d # 0): truncation toward zero.
IntOf(n, d) ==
    IF (n >= 0) = (d > 0)
    THEN Abs(n) \div Abs(d)
    ELSE 0 - (Abs(n) \div Abs(d))

RECURSIVE SumSeq(_)
SumSeq(s) == IF s = <<>> THEN 0 ELSE Head(s) + SumSeq(Tail(s))

(***************************************************************************)
(* Slots and rects.                                                        *)
(***************************************************************************)
Slot(index, rect) == [index |-> index, rect |-> rect]

NoRatio == Rat(0, 1)

\* Layout.__init__: the fields every layout has, before _calculate_slots.
LayoutBase(cls, padding, gap, ratio, ratios) ==
    [pc |-> "built", cls |-> cls,
     padding |-> padding, gap |-> gap,
     width |-> DISPLAY_WIDTH, height |-> DISPLAY_HEIGHT,
     ratio |-> ratio, ratios |-> ratios, slots |-> <<>>]

\* Layout._available_space: the canvas minus the padding on both sides.
AvailableSpace(l) == <<l.width - 2 * l.padding, l.height - 2 * l.padding>>

(***************************************************************************)
(* SplitHorizontal and SplitVertical.                                      *)
(***************************************************************************)
ClampRatioWide(ratio) == PyMax(Rat(1, 10), PyMin(Rat(9, 10), ratio))

\* self.ratio = max(0.2, min(0.8, ratio))
ClampRatio(ratio) == PyMax(Rat(1, 5), PyMin(Rat(4, 5), ratio))

SplitHorizontalSlotsNoGap(l) ==
    LET available_width == AvailableSpace(l)[1]
        content_width == available_width - l.gap
        left_width == IntOf(content_width * l.ratio.n, l.ratio.d)
    IN  << Slot(0, <<l.padding, l.padding,
                     l.padding + left_width, l.height - l.padding>>),
           Slot(1, <<l.padding + left_width, l.padding,
                     l.width - l.padding, l.height - l.padding>>) >>

SplitHorizontalSlotsMinusGap(l) ==
    LET available_width == AvailableSpace(l)[1]
        content_width == available_width - l.gap
        left_width == IntOf(content_width * l.ratio.n, l.ratio.d)
    IN  << Slot(0, <<l.padding, l.padding,
                     l.padding + left_width, l.height - l.padding>>),
           Slot(1, <<l.padding + left_width - l.gap, l.padding,
                     l.width - l.padding, l.height - l.padding>>) >>

SplitHorizontalSlotsUnpadded(l) ==
    LET available_width == AvailableSpace(l)[1]
        content_width == available_width - l.gap
        left_width == IntOf(content_width * l.ratio.n, l.ratio.d)
    IN  << Slot(0, <<l.padding, l.padding,
                     l.padding + left_width, l.height - l.padding>>),
           Slot(1, <<l.padding + left_width + l.gap, l.padding,
                     l.width, l.height - l.padding>>) >>

SplitHorizontalSlots(l) ==
    LET available_width == AvailableSpace(l)[1]
        content_width == available_width - l.gap
        left_width == IntOf(content_width * l.ratio.n, l.ratio.d)
    IN  << Slot(0, <<l.padding, l.padding,
                     l.padding + left_width, l.height - l.padding>>),
           Slot(1, <<l.padding + left_width + l.gap, l.padding,
                     l.width - l.padding, l.height - l.padding>>) >>

SplitVerticalSlotsRatioOfAvailable(l) ==
    LET available_height == AvailableSpace(l)[2]
        top_height == IntOf(available_height * l.ratio.n, l.ratio.d)
    IN  << Slot(0, <<l.padding, l.padding,
                     l.width - l.padding, l.padding + top_height>>),
           Slot(1, <<l.padding, l.padding + top_height + l.gap,
                     l.width - l.padding, l.height - l.padding>>) >>

SplitVerticalSlotsSameIndex(l) ==
    LET available_height == AvailableSpace(l)[2]
        content_height == available_height - l.gap
        top_height == IntOf(content_height * l.ratio.n, l.ratio.d)
    IN  << Slot(0, <<l.padding, l.padding,
                     l.width - l.padding, l.padding + top_height>>),
           Slot(0, <<l.padding, l.padding + top_height + l.gap,
                     l.width - l.padding, l.height - l.padding>>) >>

SplitVerticalSlotsSwapped(l) ==
    LET available_height == AvailableSpace(l)[2]
        content_height == available_height - l.gap
        top_height == IntOf(content_height * l.ratio.n, l.ratio.d)
    IN  << Slot(0, <<l.padding, l.padding + top_height + l.gap,
                     l.width - l.padding, l.padding>>),
           Slot(1, <<l.padding, l.padding + top_height + l.gap,
                     l.width - l.padding, l.height - l.padding>>) >>

SplitVerticalSlots(l) ==
    LET available_height == AvailableSpace(l)[2]
        content_height == available_height - l.gap
        top_height == IntOf(content_height * l.ratio.n, l.ratio.d)
    IN  << Slot(0, <<l.padding, l.padding,
                     l.width - l.padding, l.padding + top_height>>),
           Slot(1, <<l.padding, l.padding + top_height + l.gap,
                     l.width - l.padding, l.height - l.padding>>) >>

(***************************************************************************)
(* ThreeColumnLayout and ThreeRowLayout.  The loop over enumerate(ratios)  *)
(* is the recursion on i (1-based here, the slot index is i - 1); x and y  *)
(* are the loop's running coordinate.                                      *)
(***************************************************************************)
RECURSIVE ColumnLoop(_, _, _, _)
ColumnLoop(l, available_width, i, x) ==
    IF i > Len(l.ratios) THEN <<>>
    ELSE LET col_width == IntOf(available_width * l.ratios[i], SumSeq(l.ratios))
         IN  << Slot(i - 1, <<x, l.padding, x + col_width, l.height - l.padding>>) >>
             \o ColumnLoop(l, available_width, i + 1, x + col_width + l.gap)

ThreeColumnSlotsOneGap(l) ==
    ColumnLoop(l, l.width - (2 * l.padding) - l.gap, 1, l.padding)

ThreeColumnSlots(l) ==
    ColumnLoop(l, l.width - (2 * l.padding) - (2 * l.gap), 1, l.padding)

RECURSIVE RowLoop(_, _, _, _)
RowLoop(l, available_height, i, y) ==
    IF i > Len(l.ratios) THEN <<>>
    ELSE LET row_height == IntOf(available_height * l.ratios[i], SumSeq(l.ratios))
         IN  << Slot(i - 1, <<l.padding, y, l.width - l.padding, y + row_height>>) >>
             \o RowLoop(l, available_height, i + 1, y + row_height + l.gap)

ThreeRowSlots(l) ==
    RowLoop(l, l.height - (2 * l.padding) - (2 * l.gap), 1, l.padding)

(***************************************************************************)
(* FullscreenLayout.                                                       *)
(***************************************************************************)
FullscreenSlots(l) == << Slot(0, <<0, 0, l.width, l.height>>) >>

(***************************************************************************)
(* Method dispatch and the constructors.                                   *)
(***************************************************************************)
SplitClasses == {"SplitHorizontal", "SplitVertical"}
PresetClasses == {"SplitHorizontal1To2", "SplitHorizontal2To1"}
ThreeClasses == {"ThreeColumnLayout", "ThreeRowLayout"}

\* self._calculate_slots(), by the class of self.
CalculateSlotsOf(l) ==
    CASE l.cls \in {"SplitHorizontal"} \cup PresetClasses -> SplitHorizontalSlots(l)
      [] l.cls = "SplitVertical" -> SplitVerticalSlots(l)
      [] l.cls = "ThreeColumnLayout" -> ThreeColumnSlots(l)
      [] l.cls = "ThreeRowLayout" -> ThreeRowSlots(l)
      [] l.cls = "FullscreenLayout" -> FullscreenSlots(l)

\* Layout.__init__(padding, gap) on an object whose subclass fields are set:
\* it stores padding and gap and calls _calculate_slots.
LayoutInit(cls, padding, gap, ratio, ratios) ==
    LET self == LayoutBase(cls, padding, gap, ratio, ratios)
    IN  [self EXCEPT !.slots = CalculateSlotsOf(self)]

\* The constructor did not return: _calculate_slots raised ZeroDivisionError.
Raised(cls) == [LayoutBase(cls, 0, 0, NoRatio, <<>>) EXCEPT !.pc = "raised"]

\* SplitHorizontal.__init__ and SplitVertical.__init__
SplitInit(cls, ratio, padding, gap) ==
    LayoutInit(cls, padding, gap, ClampRatio(ratio), <<>>)

\* SplitHorizontal1To2.__init__ and SplitHorizontal2To1.__init__
PresetInit(cls, padding, gap) ==
    LET self == SplitInit("SplitHorizontal",
                          IF cls = "SplitHorizontal1To2"
                          THEN Rat(33, 100) ELSE Rat(67, 100),
                          padding, gap)
    IN  [self EXCEPT !.cls = cls]

\* ThreeColumnLayout.__init__ and ThreeRowLayout.__init__; ratio / total_ratio
\* raises ZeroDivisionError when the ratios sum to zero.
ThreeInit(cls, ratios, padding, gap) ==
    IF SumSeq(ratios) = 0
    THEN Raised(cls)
    ELSE LayoutInit(cls, padding, gap, NoRatio, ratios)

FullscreenInitKeepsPadding(padding, gap) ==
    LayoutInit("FullscreenLayout", padding, gap, NoRatio, <<>>)

\* FullscreenLayout.__init__: super().__init__(padding=0, gap=0)
FullscreenInit(padding, gap) ==
    LayoutInit("FullscreenLayout", 0, 0, NoRatio, <<>>)

(***************************************************************************)
(* The constructor calls the model examines.                               *)
(***************************************************************************)
Paddings == 0..MaxPadding
Gaps == 0..MaxGap

\* Requested split ratios, in and out of [0.2, 0.8] and of [0, 1].
RatioValues ==
    { Rat(0 - 1, 2), Rat(0, 1), Rat(1, 10), Rat(1, 5), Rat(1, 4), Rat(33, 100),
      Rat(1, 2), Rat(67, 100), Rat(3, 4), Rat(4, 5), Rat(9, 10), Rat(1, 1),
      Rat(3, 2) }

\* ThreeColumnLayout's and ThreeRowLayout's default: (0.33, 0.34, 0.33).
DefaultRatios == <<33, 34, 33>>

\* Ratio triples: the default and small integer weights, zero and negative
\* ones included (the constructors do not validate them).
RatioWeights == (0 - 1)..MaxWeight
RatioTuples == {DefaultRatios} \cup [1..3 -> RatioWeights]

Calls ==
    [cls : SplitClasses, ratio : RatioValues, ratios : {<<>>},
     padding : Paddings, gap : Gaps]
    \cup [cls : PresetClasses \cup {"FullscreenLayout"}, ratio : {NoRatio},
          ratios : {<<>>}, padding : Paddings, gap : Gaps]
    \cup [cls : ThreeClasses, ratio : {NoRatio}, ratios : RatioTuples,
          padding : Paddings, gap : Gaps]

NoLayout == [LayoutBase("none", 0, 0, NoRatio, <<>>) EXCEPT !.pc = "new"]

(***************************************************************************)
(* Actions on layouts.                                                     *)
(***************************************************************************)
NewSplit ==
    /\ layout.pc = "new"
    /\ call.cls \in SplitClasses
    /\ layout' = SplitInit(call.cls, call.ratio, call.padding, call.gap)
    /\ UNCHANGED <<call, gaugeVars, widgetVars, platformVars>>

NewPreset ==
    /\ layout.pc = "new"
    /\ call.cls \in PresetClasses
    /\ layout' = PresetInit(call.cls, call.padding, call.gap)
    /\ UNCHANGED <<call, gaugeVars, widgetVars, platformVars>>

NewThree ==
    /\ layout.pc = "new"
    /\ call.cls \in ThreeClasses
    /\ layout' = ThreeInit(call.cls, call.ratios, call.padding, call.gap)
    /\ UNCHANGED <<call, gaugeVars, widgetVars, platformVars>>

NewFullscreen ==
    /\ layout.pc = "new"
    /\ call.cls = "FullscreenLayout"
    /\ layout' = FullscreenInit(call.padding, call.gap)
    /\ UNCHANGED <<call, gaugeVars, widgetVars, platformVars>>

\* A further call of _calculate_slots on a constructed layout.
Recalculate ==
    /\ layout.pc = "built"
    /\ layout' = [layout EXCEPT !.slots = CalculateSlotsOf(layout)]
    /\ UNCHANGED <<call, gaugeVars, widgetVars, platformVars>>

NextLayout ==
    \/ NewSplit
    \/ NewPreset
    \/ NewThree
    \/ NewFullscreen
    \/ Recalculate


(***************************************************************************)
(* GaugeWidget.  An entity state is a snapshot [present, state, unit,      *)
(* friendly_name]; state.state is a string, modelled by what float() makes *)
(* of it: the digits of the integer v ("num"), "nan", "inf", "-inf", or a  *)
(* text float() rejects ("text", such as "unavailable").  An option the    *)
(* config leaves out is modelled as the option set to the default that     *)
(* options.get gives it.                                                   *)
(***************************************************************************)
StateString(kind, v) == [kind |-> kind, v |-> v]

NoState ==
    [present |-> FALSE, state |-> StateString("text", 0), unit |-> "",
     friendly_name |-> ""]

\* float(state.state): the float, or ValueError for a text that is no number.
ParseFloat(s) ==
    CASE s.kind = "num" -> [ok |-> TRUE, value |-> Rat(s.v, 1)]
      [] s.kind = "nan" -> [ok |-> TRUE, value |-> NaN]
      [] s.kind = "inf" -> [ok |-> TRUE, value |-> PosInf]
      [] s.kind = "-inf" -> [ok |-> TRUE, value |-> NegInf]
      [] OTHER -> [ok |-> FALSE, value |-> Rat(0, 1)]

\* The text "--" that stands for no value.
Dashes == [kind |-> "--", v |-> 0]

\* f"{value:.0f}" of a float that is an integer, nan or an infinity.
FormatFloat0(value) ==
    IF value.kind = "num"
    THEN [kind |-> "num", v |-> IntOf(value.n, value.d)]
    ELSE [kind |-> value.kind, v |-> 0]

\* ((value - min_value) / value_range) * 100, for value_range > 0.
Scaled(value, min_value, value_range) ==
    IF value.kind = "num"
    THEN Rat((value.n - min_value * value.d) * 100, value.d * value_range)
    ELSE value

PercentUnclamped(value, min_value, max_value) ==
    LET value_range == max_value - min_value
    IN  IF value_range > 0
        THEN PyMax(Rat(0, 1), Scaled(value, min_value, value_range))
        ELSE Rat(0, 1)

\* "Calculate percentage"
Percent(value, min_value, max_value) ==
    LET value_range == max_value - min_value
    IN  IF value_range > 0
        THEN PyMax(Rat(0, 1),
                   PyMin(Rat(100, 1), Scaled(value, min_value, value_range)))
        ELSE Rat(0, 1)

\* str.upper() of the names the model uses.
Upper(name) ==
    CASE name = "Sensor" -> "SENSOR"
      [] name = "Cpu" -> "CPU"
      [] OTHER -> name

\* GaugeWidget.__init__
GaugeInit(config) ==
    [config |-> config,
     style |-> config.options.style,
     min_value |-> config.options.min,
     max_value |-> config.options.max,
     icon |-> config.options.icon,
     show_value |-> config.options.show_value,
     unit |-> config.options.unit]

\* The text drawn for the value: f"{value}{self.unit}" if self.unit else value,
\* and nothing when show_value is off.
ValueText(self, value) ==
    [shown |-> self.show_value,
     value |-> IF self.show_value THEN value ELSE Dashes,
     unit |-> IF self.show_value THEN self.unit ELSE ""]

\* _render_bar: icon, label, value text and the bar.
RenderBar(self, percent, value, name) ==
    [shape |-> "bar", percent |-> percent,
     icon |-> self.icon, label |-> Upper(name), text |-> ValueText(self, value)]

\* _render_ring: the ring, the value text in its centre, the label below.
RenderRing(self, percent, value, name) ==
    [shape |-> "ring", percent |-> percent,
     icon |-> "", label |-> Upper(name), text |-> ValueText(self, value)]

\* _render_arc: the arc, the value text, the label.
RenderArc(self, percent, value, name) ==
    [shape |-> "arc", percent |-> percent,
     icon |-> "", label |-> Upper(name), text |-> ValueText(self, value)]

\* The unit GaugeWidget.render leaves in self.unit.
UnitAfterRender(self, state) ==
    IF state.present /\ self.unit = "" THEN state.unit ELSE self.unit

\* GaugeWidget.render with the entity state get_entity_state returned:
\* the widget after the call and what was drawn.
GaugeRender(self, state) ==
    LET parsed == IF state.present THEN ParseFloat(state.state)
                  ELSE [ok |-> FALSE, value |-> Rat(0, 1)]
        value == IF parsed.ok THEN parsed.value ELSE Rat(0, 1)
        display_value == IF parsed.ok THEN FormatFloat0(value) ELSE Dashes
        after == [self EXCEPT !.unit = UnitAfterRender(self, state)]
        percent == Percent(value, after.min_value, after.max_value)
        name == IF self.config.label # "" THEN self.config.label
                ELSE IF state.present THEN state.friendly_name ELSE ""
    IN  [self |-> after,
         drawn |-> CASE after.style = "ring" ->
                            RenderRing(after, percent, display_value, name)
                     [] after.style = "arc" ->
                            RenderArc(after, percent, display_value, name)
                     [] OTHER ->
                            RenderBar(after, percent, display_value, name)]

(***************************************************************************)
(* The gauge configurations and entity states the model examines.          *)
(***************************************************************************)
GaugeStyles == {"bar", "ring", "arc", "dial"}
GaugeMins == {0 - 50, 0, 50}
GaugeMaxs == {0, 50, 100}
Units == {"", "C", "%"}

GaugeConfigs ==
    [label : {"", "Cpu"},
     options : [style : GaugeStyles, min : GaugeMins, max : GaugeMaxs,
                icon : {""}, show_value : BOOLEAN, unit : {"", "%"}]]

\* The numbers an entity reports: multiples of ValueStep, below the least
\* minimum and above the greatest maximum included.
Values == { ValueStep * k : k \in (0 - 3)..MaxValueSteps }

StateStrings ==
    { StateString("num", v) : v \in Values }
    \cup { StateString(k, 0) : k \in {"nan", "inf", "-inf", "text"} }

EntityStates ==
    {NoState}
    \cup [present : {TRUE}, state : StateStrings, unit : Units,
          friendly_name : {"Sensor"}]

NoGauge == [GaugeInit([label |-> "",
                       options |-> [style |-> "bar", min |-> 0, max |-> 100,
                                    icon |-> "", show_value |-> TRUE,
                                    unit |-> ""]])
            EXCEPT !.style = "none"]

\* Nothing drawn yet.
NotDrawn ==
    [done |-> FALSE, state |-> NoState,
     out |-> RenderBar(NoGauge, Rat(0, 1), Dashes, "")]

(***************************************************************************)
(* Actions on the gauge widget.                                            *)
(***************************************************************************)
\* One render pass: the coordinator hands the widget the entity's state.
Render ==
    /\ gauge.style # "none"
    /\ \E state \in EntityStates :
          LET r == GaugeRender(gauge, state)
          IN  /\ gauge' = r.self
              /\ drawn' = [done |-> TRUE, state |-> state, out |-> r.drawn]
    /\ UNCHANGED <<layoutVars, widgetVars, platformVars>>

NextGauge == Render

(***************************************************************************)
(* Specifications.                                                         *)
(***************************************************************************)
InitLayout ==
    /\ call \in Calls
    /\ layout = NoLayout
    /\ gauge = NoGauge
    /\ drawn = NotDrawn
    /\ config_entry = NoEntry
    /\ platform = NoPlatform
    /\ widget = NoWidget
    /\ shown = NotShown

InitGauge ==
    /\ call = [cls |-> "FullscreenLayout", ratio |-> NoRatio, ratios |-> <<>>,
               padding |-> 0, gap |-> 0]
    /\ layout = NoLayout
    /\ gauge \in { GaugeInit(c) : c \in GaugeConfigs }
    /\ drawn = NotDrawn
    /\ config_entry = NoEntry
    /\ platform = NoPlatform
    /\ widget = NoWidget
    /\ shown = NotShown

Init == InitLayout \/ InitGauge

Next == NextLayout \/ NextGauge

Spec == Init /\ [][Next]_vars

SpecLayout == InitLayout /\ [][NextLayout]_vars

SpecGauge == InitGauge /\ [][NextGauge]_vars


(***************************************************************************)
(* Properties of the layouts (checked under SpecLayout).                   *)
(***************************************************************************)
Max2(a, b) == IF a > b THEN a ELSE b
Min2(a, b) == IF a < b THEN a ELSE b

Built == layout.pc = "built"

\* The layouts that divide the canvas: every class but FullscreenLayout.
Dividing == layout.cls \in SplitClasses \cup PresetClasses \cup ThreeClasses

Horizontal == layout.cls \in {"SplitHorizontal"} \cup PresetClasses

SlotIndexes == 1..Len(layout.slots)

RectOf(i) == layout.slots[i].rect

\* Two rects share a pixel of positive area.
Overlap(a, b) ==
    /\ Max2(a[1], b[1]) < Min2(a[3], b[3])
    /\ Max2(a[2], b[2]) < Min2(a[4], b[4])

PositiveArea(r) == r[1] < r[3] /\ r[2] < r[4]

NoTwoSlotsOverlap ==
    \A i, j \in SlotIndexes : i < j => ~Overlap(RectOf(i), RectOf(j))

\* No two of the ratios have opposite signs (so every ratio / total is >= 0).
OneSign ==
    \A i, j \in 1..Len(layout.ratios) :
        ~(layout.ratios[i] < 0 /\ layout.ratios[j] > 0)

\* The extent left after the padding on both sides and the gaps between the
\* slots is not negative.
Roomy ==
    IF layout.cls \in ThreeClasses
    THEN layout.width - 2 * layout.padding - 2 * layout.gap >= 0
    ELSE layout.width - 2 * layout.padding - layout.gap >= 0

InsidePadding(r) ==
    /\ layout.padding <= r[1]
    /\ r[3] <= layout.width - layout.padding
    /\ layout.padding <= r[2]
    /\ r[4] <= layout.height - layout.padding

WellFormed(r) == r[1] <= r[3] /\ r[2] <= r[4]

\* C1 as stated: for every non-negative padding and gap and every ratio
\* configuration, no two slots of a dividing layout share a pixel of positive
\* area.
C1_NonOverlapAnyRatios == (Built /\ Dividing) => NoTwoSlotsOverlap

\* C1 amended: for every non-negative padding and gap, every split ratio and
\* every ratio triple that has no two entries of opposite sign, no two slots of
\* a dividing layout share a pixel of positive area.
C1_NonOverlap == (Built /\ Dividing /\ OneSign) => NoTwoSlotsOverlap

C1_Witness ==
    /\ Built
    /\ layout.cls = "ThreeColumnLayout"
    /\ layout.ratios = DefaultRatios
    /\ layout.padding = 8 /\ layout.gap = 8
    /\ \A i \in SlotIndexes : PositiveArea(RectOf(i))

\* C2 as stated: for every dividing layout and every non-negative padding and
\* gap, each slot rect has padding <= x1, x2 <= width - padding,
\* padding <= y1 and y2 <= height - padding.
C2_InsidePaddingAlways ==
    (Built /\ Dividing) => \A i \in SlotIndexes : InsidePadding(RectOf(i))

\* C2 amended: the same bounds hold for every dividing layout whose padding
\* and gaps leave a non-negative extent (2 * padding + gap <= width for the
\* splits, 2 * padding + 2 * gap <= width for three columns or rows) and
\* whose ratio triple has no two entries of opposite sign.
C2_InsidePadding ==
    (Built /\ Dividing /\ Roomy /\ OneSign)
        => \A i \in SlotIndexes : InsidePadding(RectOf(i))

C2_Witness ==
    /\ Built
    /\ layout.cls = "SplitVertical"
    /\ layout.padding = 118 /\ layout.gap = 4
    /\ call.ratio = Rat(3, 4)
    /\ \A i \in SlotIndexes : InsidePadding(RectOf(i))

\* C3 as stated: every slot rect of every layout has x1 <= x2 and y1 <= y2,
\* for every non-negative padding and gap.
C3_WellFormedAlways == Built => \A i \in SlotIndexes : WellFormed(RectOf(i))

\* C3 amended: every slot rect has x1 <= x2 and y1 <= y2 for FullscreenLayout
\* always, and for a dividing layout whenever its padding and gaps leave a
\* non-negative extent and its ratio triple has no two entries of opposite
\* sign.
C3_WellFormed ==
    (Built /\ Roomy /\ OneSign) => \A i \in SlotIndexes : WellFormed(RectOf(i))

C3_Witness ==
    /\ Built
    /\ layout.cls = "ThreeRowLayout"
    /\ layout.ratios = <<1, 2, 1>>
    /\ layout.width - 2 * layout.padding - 2 * layout.gap = 0
    /\ layout.gap > 0
    /\ \A i \in SlotIndexes : WellFormed(RectOf(i))


\* The clamp as C4 words it: min(0.8, max(0.2, r)).
ClampAsClaimed(r) == PyMin(Rat(4, 5), PyMax(Rat(1, 5), r))

\* C4: SplitHorizontal and SplitVertical never reject a ratio, and a layout
\* built with any ratio r has exactly the slots of one built with
\* min(0.8, max(0.2, r)): a ratio below 0.2 behaves as 0.2, one above 0.8 as
\* 0.8.
C4_RatioClamped ==
    (layout.pc # "new" /\ layout.cls \in SplitClasses)
        => /\ Built
           /\ layout.slots =
                  SplitInit(call.cls, ClampAsClaimed(call.ratio),
                            call.padding, call.gap).slots
           /\ RatLess(call.ratio, Rat(1, 5)) =>
                  layout.slots =
                      SplitInit(call.cls, Rat(1, 5), call.padding, call.gap).slots
           /\ RatLess(Rat(4, 5), call.ratio) =>
                  layout.slots =
                      SplitInit(call.cls, Rat(4, 5), call.padding, call.gap).slots

C4_Witness ==
    /\ Built
    /\ layout.cls = "SplitHorizontal"
    /\ call.ratio = Rat(3, 2)
    /\ layout.padding = 8 /\ layout.gap = 8
    /\ layout.ratio = Rat(4, 5)
    /\ RectOf(1)[3] - RectOf(1)[1] = 172

\* Along the split axis: where slot i starts and ends.
AxisStart(i) == IF Horizontal THEN RectOf(i)[1] ELSE RectOf(i)[2]
AxisEnd(i) == IF Horizontal THEN RectOf(i)[3] ELSE RectOf(i)[4]

IsSplit == layout.cls \in SplitClasses \cup PresetClasses

\* C5 as stated: in the split layouts, for every accepted gap the second slot
\* starts strictly after the first slot ends along the split axis.
C5_StrictlyApartAlways == (Built /\ IsSplit) => AxisStart(2) > AxisEnd(1)

\* C5 amended: in the split layouts the gap is subtracted from the content
\* extent before the ratio is applied, and the second slot starts exactly gap
\* pixels after the first slot ends: strictly after it whenever gap > 0, and
\* at the very pixel where the first ends (the panels touch) when gap = 0.
C5_GapApart ==
    (Built /\ IsSplit)
        => /\ AxisEnd(1) - AxisStart(1) =
                  IntOf((layout.width - 2 * layout.padding - layout.gap)
                            * layout.ratio.n, layout.ratio.d)
           /\ AxisStart(2) = AxisEnd(1) + layout.gap
           /\ layout.gap > 0 => AxisStart(2) > AxisEnd(1)
           /\ layout.gap = 0 => AxisStart(2) = AxisEnd(1)

C5_Witness ==
    /\ Built
    /\ layout.cls = "SplitHorizontal"
    /\ layout.padding = 8 /\ layout.gap = 8 /\ layout.ratio = Rat(1, 2)
    /\ AxisEnd(1) = 116
    /\ AxisStart(2) = 124

IsThree == layout.cls \in ThreeClasses

ThreeStart(i) == IF layout.cls = "ThreeColumnLayout" THEN RectOf(i)[1] ELSE RectOf(i)[2]
ThreeEnd(i) == IF layout.cls = "ThreeColumnLayout" THEN RectOf(i)[3] ELSE RectOf(i)[4]

\* The extent the three slots share: the canvas minus 2 paddings and 2 gaps.
ThreeAvailable == layout.width - 2 * layout.padding - 2 * layout.gap

ExtentsAsClaimed ==
    \A i \in SlotIndexes :
        ThreeEnd(i) - ThreeStart(i) =
            IntOf(ThreeAvailable * layout.ratios[i], SumSeq(layout.ratios))

\* C6 as stated: each slot's extent is int(available * ratio_i / sum(ratios))
\* and the truncation remainder goes to the last slot, whose far edge reaches
\* width - padding (height - padding for rows).
C6_LastSlotReachesEdge ==
    (Built /\ IsThree)
        => /\ ExtentsAsClaimed
           /\ ThreeEnd(3) = layout.width - layout.padding

\* C6 amended: each slot's extent, the last one's too, is
\* int(available * ratio_i / sum(ratios)); the slots follow each other gap
\* pixels apart from padding on, and the pixels lost to truncation go to no
\* slot: the last slot's far edge is within 2 pixels of width - padding
\* (height - padding for rows) and reaches it only when nothing was truncated.
C6_ExtentsTruncated ==
    (Built /\ IsThree)
        => /\ ExtentsAsClaimed
           /\ ThreeStart(1) = layout.padding
           /\ \A i \in 1..2 : ThreeStart(i + 1) = ThreeEnd(i) + layout.gap
           /\ Abs((layout.width - layout.padding) - ThreeEnd(3)) <= 2
           /\ (layout.width - layout.padding) - ThreeEnd(3) =
                  ThreeAvailable
                      - (ThreeEnd(1) - ThreeStart(1))
                      - (ThreeEnd(2) - ThreeStart(2))
                      - (ThreeEnd(3) - ThreeStart(3))

C6_Witness ==
    /\ Built
    /\ layout.cls = "ThreeColumnLayout"
    /\ layout.ratios = DefaultRatios
    /\ layout.padding = 8 /\ layout.gap = 8
    /\ ThreeEnd(3) = 230

\* C7: FullscreenLayout ignores the caller's padding and gap: whatever is
\* passed, its padding and gap are 0 and it has exactly one slot, index 0, with
\* rect (0, 0, width, height).
C7_FullscreenEdgeToEdge ==
    (Built /\ layout.cls = "FullscreenLayout")
        => /\ layout.padding = 0
           /\ layout.gap = 0
           /\ layout.slots = << Slot(0, <<0, 0, DISPLAY_WIDTH, DISPLAY_HEIGHT>>) >>

C7_Witness ==
    /\ Built
    /\ layout.cls = "FullscreenLayout"
    /\ call.padding = 8 /\ call.gap = 8
    /\ layout.padding = 0 /\ layout.gap = 0

SlotCount(cls) ==
    CASE cls \in SplitClasses \cup PresetClasses -> 2
      [] cls \in ThreeClasses -> 3
      [] cls = "FullscreenLayout" -> 1

\* C8: for every layout and configuration slots[i].index = i, the number of
\* slots is fixed by the layout type (2 for the splits, 3 for three columns or
\* rows, 1 for fullscreen) whatever the padding, gap and ratio, and computing
\* the slots again gives the same slots in the same order.
C8_IndexStable ==
    Built
        => /\ \A i \in SlotIndexes : layout.slots[i].index = i - 1
           /\ Len(layout.slots) = SlotCount(layout.cls)
           /\ CalculateSlotsOf(layout) = layout.slots

C8_Witness ==
    /\ Built
    /\ layout.cls = "SplitVertical"
    /\ layout.padding = 124
    /\ Len(layout.slots) = 2
    /\ layout.slots[2].index = 1


(***************************************************************************)
(* Properties of the gauge widget (checked under SpecGauge).               *)
(***************************************************************************)
\* The number the percent is computed from: the state's number, and 0 when
\* the entity is absent or its state is no number.
DrawnValue ==
    IF drawn.state.present /\ drawn.state.state.kind # "text"
    THEN ParseFloat(drawn.state.state).value
    ELSE Rat(0, 1)

\* clamp(0, 100, (value - min) / (max - min) * 100) of a finite value, as C9
\* words it, for max > min.
PercentAsClaimed(v, min, max) ==
    LET num == (v - min) * 100
        den == max - min
    IN  IF num < 0 THEN Rat(0, 1)
        ELSE IF num > 100 * den THEN Rat(100, 1)
        ELSE Rat(num, den)

ShapeOfStyle(style) ==
    CASE style = "ring" -> "ring"
      [] style = "arc" -> "arc"
      [] OTHER -> "bar"

\* C9: the percent the gauge draws is clamp(0, 100, (value - min) / (max - min)
\* * 100) when max > min and 0 when max <= min; it lies in [0, 100] for every
\* value, min and max, and the bar, the ring and the arc are all drawn with
\* this percent.
C9_PercentClamped ==
    drawn.done
        => LET percent == drawn.out.percent
               min == gauge.min_value
               max == gauge.max_value
           IN  /\ percent.kind = "num"
               /\ ~RatLess(percent, Rat(0, 1))
               /\ ~RatLess(Rat(100, 1), percent)
               /\ max <= min => RatEq(percent, Rat(0, 1))
               /\ (max > min /\ DrawnValue.kind = "num")
                      => RatEq(percent, PercentAsClaimed(DrawnValue.n, min, max))
               /\ drawn.out.shape = ShapeOfStyle(gauge.style)

C9_Witness ==
    /\ drawn.done
    /\ drawn.state.present
    /\ drawn.state.state = StateString("num", 150)
    /\ gauge.min_value = 0 /\ gauge.max_value = 100
    /\ gauge.style = "arc"
    /\ RatEq(drawn.out.percent, Rat(100, 1))

\* C10: the gauge widget is stateless across render calls: after any sequence
\* of renders, what a render draws for the current entity state is what a
\* freshly constructed widget of the same configuration draws for it,
\* whatever entity states the earlier renders saw.
C10_RenderAsFresh ==
    drawn.done
        => drawn.out = GaugeRender(GaugeInit(gauge.config), drawn.state).drawn

(***************************************************************************)
(* widgets/status.py.  A label is a Python str and is modelled as the      *)
(* sequence of its characters, so that len() and slicing are what they     *)
(* are in Python.  An entity's state string is modelled as a string.       *)
(***************************************************************************)

MaxWidth == 100

\* The texts the model's labels, names and entity ids are drawn from.
Door == <<"D", "o", "o", "r">>
FrontDoor1 == <<"F", "r", "o", "n", "t", "D", "o", "o", "r", "1">>
BackDoor == <<"B", "a", "c", "k", " ", "D", "o", "o", "r">>
LockA == <<"l", "o", "c", "k", ".", "a">>
LockB == <<"l", "o", "c", "k", ".", "b">>
Unknown == <<"U", "n", "k", "n", "o", "w", "n">>
NoText == <<>>

\* str.lower() on the state strings the model draws.
Lower(s) ==
    CASE s \in {"on", "ON", "On", "oN"} -> "on"
      [] s \in {"true", "True", "TRUE"} -> "true"
      [] s \in {"home", "Home"} -> "home"
      [] s \in {"open", "OPEN"} -> "open"
      [] s \in {"unlocked", "Unlocked"} -> "unlocked"
      [] s \in {"off", "OFF"} -> "off"
      [] s \in {"on ", "ON "} -> "on "
      [] s \in {"opened", "Opened"} -> "opened"
      [] OTHER -> s

\* s[:k] of Python: the first k characters, or all but the last -k of them.
PySliceTo(s, k) ==
    IF k >= 0
    THEN SubSeq(s, 1, Min2(k, Len(s)))
    ELSE SubSeq(s, 1, Max2(Len(s) + k, 0))

\* The tuple of state strings that count as on.
TruthyStates == {"on", "true", "home", "open", "unlocked", "1"}

IsOnCaseSensitive(state) ==
    IF state.present THEN state.state \in TruthyStates ELSE FALSE

\* StatusWidget.render: is_on.
IsOn(state) ==
    IF state.present THEN Lower(state.state) \in TruthyStates ELSE FALSE

\* StatusListWidget.render: is_on of one row.
RowIsOn(state) ==
    IF state.present THEN Lower(state.state) \in TruthyStates ELSE FALSE

\* StatusWidget.render: the name, cut to max_name_len.
TruncateName(name, width) ==
    LET max_name_len == (width - 40) \div 7
    IN  IF Len(name) > max_name_len
        THEN PySliceTo(name, max_name_len - 2) \o <<".", ".">>
        ELSE name

\* StatusListWidget.render: the label of one row, cut to max_len.
TruncateLabel(label, width) ==
    LET max_len == (width - 60) \div 7
    IN  IF Len(label) > max_len
        THEN PySliceTo(label, max_len - 2) \o <<".", ".">>
        ELSE label

\* StatusWidget.__init__
StatusInit(config) ==
    [cls |-> "StatusWidget",
     config |-> config,
     on_color |-> config.options.on_color,
     off_color |-> config.options.off_color,
     on_text |-> config.options.on_text,
     off_text |-> config.options.off_text,
     icon |-> config.options.icon,
     show_status_text |-> config.options.show_status_text]

\* state.attributes.get("friendly_name", default) of an entity state.
FriendlyNameOr(state, default) ==
    IF state.has_friendly_name THEN state.friendly_name ELSE default

\* StatusWidget.render: the name before it is cut: the configured label,
\* else the entity's friendly name (its id without one), else "Unknown".
StatusName(self, state) ==
    LET label == self.config.label
        named == IF label = NoText /\ state.present
                 THEN FriendlyNameOr(state, state.entity_id) ELSE label
    IN  IF named = NoText THEN Unknown ELSE named

\* StatusWidget.render on a rect of the given width, with the entity state
\* get_entity_state returned: the dot's color, the icon, the name and the
\* status text drawn (no status text when show_status_text is off).
StatusRender(self, width, state) ==
    LET is_on == IsOn(state)
        color == IF is_on THEN self.on_color ELSE self.off_color
        status_text == IF is_on THEN self.on_text ELSE self.off_text
    IN  [dot |-> color,
         icon |-> self.icon,
         name |-> TruncateName(StatusName(self, state), width),
         status_text |-> IF self.show_status_text THEN status_text ELSE ""]

\* StatusListWidget.__init__
StatusListInit(config) ==
    [cls |-> "StatusListWidget",
     config |-> config,
     entities |-> config.options.entities,
     on_color |-> config.options.on_color,
     off_color |-> config.options.off_color,
     on_text |-> config.options.on_text,
     off_text |-> config.options.off_text,
     title |-> config.options.title]

\* StatusListWidget.get_entities
StatusListEntities(self) ==
    { self.entities[i].entity_id : i \in DOMAIN self.entities }

\* An entity that hass.states does not hold (or no hass at all).
Absent(entity_id) ==
    [present |-> FALSE, entity_id |-> entity_id, state |-> "",
     has_friendly_name |-> FALSE, friendly_name |-> NoText]

\* hass.states.get(entity_id) if hass else None
StatesGet(hass, entity_id) ==
    IF entity_id \in DOMAIN hass THEN hass[entity_id] ELSE Absent(entity_id)

\* StatusListWidget.render: the label of one row before it is cut.
RowLabel(entry, state) ==
    LET label == IF state.present /\ entry.label = NoText
                 THEN FriendlyNameOr(state, entry.entity_id)
                 ELSE entry.label
    IN  IF label = NoText THEN entry.entity_id ELSE label

\* StatusListWidget.render: what is drawn for one entry of self.entities.
RowRender(self, width, entry, state) ==
    LET is_on == RowIsOn(state)
        color == IF is_on THEN self.on_color ELSE self.off_color
        status_text == IF self.on_text # "" \/ self.off_text # ""
                       THEN IF is_on THEN self.on_text ELSE self.off_text
                       ELSE ""
    IN  [dot |-> color,
         label |-> TruncateLabel(RowLabel(entry, state), width),
         status_text |-> status_text]

\* StatusListWidget.render on a rect of the given width: the title and the
\* rows drawn, one row for each entry, in the entries' order.
StatusListRender(self, width, hass) ==
    [title |-> Upper(self.title),
     rows |-> [i \in DOMAIN self.entities |->
                  RowRender(self, width, self.entities[i],
                            StatesGet(hass, self.entities[i].entity_id))]]

\* The inputs the model draws for the status widgets.
Widths == 0..MaxWidth

StatusStrings ==
    {"on", "ON", "On", "true", "home", "open", "unlocked", "Unlocked", "1",
     "off", "on ", " on", "opened", "unavailable"}

StatusStates(entity_id) ==
    {Absent(entity_id)}
    \cup [present : {TRUE}, entity_id : {entity_id}, state : StatusStrings,
          has_friendly_name : {FALSE}, friendly_name : {NoText}]
    \cup [present : {TRUE}, entity_id : {entity_id}, state : StatusStrings,
          has_friendly_name : {TRUE}, friendly_name : {BackDoor}]

StatusConfigs ==
    [entity_id : {LockA},
     label : {NoText, Door, FrontDoor1},
     options : [on_color : {"lime"}, off_color : {"red"},
                on_text : {"ON"}, off_text : {"OFF"},
                icon : {"", "door"}, show_status_text : BOOLEAN]]

Entry(entity_id, label) == [entity_id |-> entity_id, label |-> label]

EntityLists ==
    { <<>>,
      <<Entry(LockA, Door)>>,
      <<Entry(LockA, NoText), Entry(LockB, FrontDoor1)>> }

StatusListConfigs ==
    [entity_id : {NoText},
     label : {NoText},
     options : [entities : EntityLists, on_color : {"lime"},
                off_color : {"red"}, on_text : {""}, off_text : {""},
                title : {""}]]
    \cup
    [entity_id : {NoText},
     label : {NoText},
     options : [entities : EntityLists, on_color : {"lime"},
                off_color : {"red"}, on_text : {"Open"}, off_text : {"Closed"},
                title : {"Sensor"}]]

\* hass.states restricted to the entities the widget depends on.
HassStates(ids) ==
    { h \in [ids -> UNION { StatusStates(e) : e \in ids }] :
        \A e \in ids : h[e].entity_id = e }

\* A render call that has not been made yet: its rect's width and the
\* entity state (or states) that hass holds for it.
Pending(width, state) ==
    [done |-> FALSE, width |-> width, state |-> state, out |-> NotShown]

(***************************************************************************)
(* The status widgets' operations.                                         *)
(***************************************************************************)
\* StatusWidget.render(renderer, draw, rect, hass)
RenderStatus ==
    /\ widget.cls = "StatusWidget"
    /\ shown' = [shown EXCEPT
                    !.done = TRUE,
                    !.out = StatusRender(widget, shown.width, shown.state)]
    /\ UNCHANGED <<widget, layoutVars, gaugeVars, platformVars>>

\* StatusListWidget.render(renderer, draw, rect, hass)
RenderStatusList ==
    /\ widget.cls = "StatusListWidget"
    /\ shown' = [shown EXCEPT
                    !.done = TRUE,
                    !.out = StatusListRender(widget, shown.width, shown.state)]
    /\ UNCHANGED <<widget, layoutVars, gaugeVars, platformVars>>

NextStatus == RenderStatus \/ RenderStatusList

\* A fullscreen layout call that no layout operation acts on.
IdleCall ==
    [cls |-> "FullscreenLayout", ratio |-> NoRatio, ratios |-> <<>>,
     padding |-> 0, gap |-> 0]

InitStatus ==
    /\ call = IdleCall
    /\ layout = NoLayout
    /\ gauge = NoGauge
    /\ drawn = NotDrawn
    /\ config_entry = NoEntry
    /\ platform = NoPlatform
    /\ \/ /\ widget \in { StatusInit(c) : c \in StatusConfigs }
          /\ shown \in { Pending(w, s) :
                           w \in Widths,
                           s \in StatusStates(widget.config.entity_id) }
       \/ /\ widget \in { StatusListInit(c) : c \in StatusListConfigs }
          /\ shown \in { Pending(w, h) :
                           w \in Widths,
                           h \in HassStates(StatusListEntities(widget)) }

SpecStatus == InitStatus /\ [][NextStatus]_vars

(***************************************************************************)
(* The status widgets' claims.                                             *)
(***************************************************************************)
IsStatus == widget.cls = "StatusWidget" /\ shown.done
IsStatusList == widget.cls = "StatusListWidget" /\ shown.done

\* The state strings of StatusStrings that are one of on, true, home, open,
\* unlocked, 1 up to the case of their letters.
OnAsClaimed ==
    {"on", "ON", "On", "true", "home", "open", "unlocked", "Unlocked", "1"}

\* The entity state the i-th row of the list was drawn from.
RowState(i) == StatesGet(shown.state, widget.entities[i].entity_id)

\* What a status widget draws for on, and for off.
DrawnOn(dot, status_text, texted) ==
    /\ dot = widget.on_color
    /\ texted => status_text = widget.on_text

DrawnOff(dot, status_text, texted) ==
    /\ dot = widget.off_color
    /\ texted => status_text = widget.off_text

ListTexted == widget.on_text # "" \/ widget.off_text # ""

\* C13: StatusWidget and StatusListWidget show an entity as on exactly when
\* it is present and its state string, letter case ignored, is one of on,
\* true, home, open, unlocked, 1; every other string (a padded "on ", " on",
\* or "opened") and an absent entity are shown as off.
C13_ExactMatchOnly ==
    /\ IsStatus =>
          LET claimed == shown.state.present
                           /\ shown.state.state \in OnAsClaimed
              out == shown.out
          IN  IF claimed
              THEN DrawnOn(out.dot, out.status_text, widget.show_status_text)
              ELSE DrawnOff(out.dot, out.status_text, widget.show_status_text)
    /\ IsStatusList =>
          \A i \in DOMAIN widget.entities :
              LET claimed == RowState(i).present
                               /\ RowState(i).state \in OnAsClaimed
                  row == shown.out.rows[i]
              IN  IF claimed
                  THEN DrawnOn(row.dot, row.status_text, ListTexted)
                  ELSE DrawnOff(row.dot, row.status_text, ListTexted)

C13_Witness ==
    /\ IsStatusList
    /\ Len(widget.entities) = 2
    /\ RowState(1).present /\ RowState(1).state = "Unlocked"
    /\ RowState(2).present /\ RowState(2).state = "on "
    /\ shown.out.rows[1].dot = "lime" /\ shown.out.rows[1].status_text = "Open"
    /\ shown.out.rows[2].dot = "red" /\ shown.out.rows[2].status_text = "Closed"

\* C14: the label StatusWidget draws has at most (width - 40) // 7
\* characters, the label StatusListWidget draws in a row at most
\* (width - 60) // 7, and neither is longer than the label before the cut,
\* for every width and label.
C14_LabelFits ==
    /\ IsStatus =>
          /\ Len(shown.out.name) <= (shown.width - 40) \div 7
          /\ Len(shown.out.name) <= Len(StatusName(widget, shown.state))
    /\ IsStatusList =>
          \A i \in DOMAIN widget.entities :
              /\ Len(shown.out.rows[i].label) <= (shown.width - 60) \div 7
              /\ Len(shown.out.rows[i].label)
                    <= Len(RowLabel(widget.entities[i], RowState(i)))

\* C11 (status widgets): with its entity absent a status widget draws
\* something it draws for no present entity state.
C11_AbsentDistinct ==
    /\ (IsStatus /\ ~shown.state.present) =>
          \A s \in StatusStates(widget.config.entity_id) :
              s.present => StatusRender(widget, shown.width, s) # shown.out
    /\ IsStatusList =>
          \A i \in DOMAIN widget.entities :
              ~RowState(i).present =>
                  \A s \in StatusStates(widget.entities[i].entity_id) :
                      s.present =>
                          RowRender(widget, shown.width, widget.entities[i], s)
                              # shown.out.rows[i]

(***************************************************************************)
(* widgets/entity.py.  A state string is modelled by its text: Dec(neg, m, *)
(* p) is the decimal numeral with sign neg, digits m and p digits after    *)
(* the point ("21.456" is Dec(FALSE, 21456, 3), "-0.0" is Dec(TRUE, 0,     *)
(* 1)); Word(s) is any other text.  An icon name is the sequence of its    *)
(* characters.                                                             *)
(***************************************************************************)
MaxPrecision == 2

Dec(neg, m, p) == [kind |-> "dec", neg |-> neg, m |-> m, p |-> p, s |-> ""]
Word(s) == [kind |-> "word", neg |-> FALSE, m |-> 0, p |-> 0, s |-> s]

RECURSIVE Pow10(_)
Pow10(p) == IF p = 0 THEN 1 ELSE 10 * Pow10(p - 1)

\* float(value) of a state string: the float, or ValueError.
FloatOf(text) ==
    CASE text.kind = "dec" ->
             [ok |-> TRUE,
              value |-> Rat(IF text.neg THEN 0 - text.m ELSE text.m,
                            Pow10(text.p))]
      [] text.kind = "word" /\ text.s \in {"nan", "NaN"} ->
             [ok |-> TRUE, value |-> NaN]
      [] text.kind = "word" /\ text.s \in {"inf", "Infinity"} ->
             [ok |-> TRUE, value |-> PosInf]
      [] OTHER -> [ok |-> FALSE, value |-> Rat(0, 1)]

\* The nearest integer to a / b for a >= 0, b > 0, a tie going to the even
\* one.
RoundHalfEven(a, b) ==
    LET floor == a \div b
        twice == 2 * (a % b)
    IN  IF twice > b \/ (twice = b /\ floor % 2 = 1) THEN floor + 1 ELSE floor

FormatKeepsAll(text, value, precision) == text

\* f"{numeric_value:.{precision}f}" for the float parsed from text (the sign
\* of the text is the sign of the float, of a negative zero too).
FormatFixed(text, value, precision) ==
    CASE value.kind = "num" ->
             Dec(text.neg,
                 RoundHalfEven(Abs(value.n) * Pow10(precision), value.d),
                 precision)
      [] value.kind = "nan" -> Word("nan")
      [] value.kind = "inf" -> Word("inf")
      [] OTHER -> Word("-inf")

\* The icon namespace prefix, and str.startswith.
Mdi == <<"m", "d", "i", ":">>
StartsWith(s, prefix) ==
    Len(s) >= Len(prefix) /\ SubSeq(s, 1, Len(prefix)) = prefix

\* An absent icon or option, and no entity.
None == <<>>
NoEntity ==
    [present |-> FALSE, entity_id |-> "", state |-> Word(""), unit |-> "",
     friendly_name |-> "", icon |-> None]

GetEntityIconUnstripped(entity_state) ==
    IF ~entity_state.present THEN None ELSE entity_state.icon

\* _get_entity_icon
GetEntityIcon(entity_state) ==
    IF ~entity_state.present
    THEN None
    ELSE LET icon == entity_state.icon
         IN  IF icon # None /\ StartsWith(icon, Mdi)
             THEN SubSeq(icon, 5, Len(icon))
             ELSE None

\* "--", the value shown for no entity.
PLACEHOLDER_VALUE == Word("--")
COLOR_CYAN == "cyan"

\* EntityWidget.__init__
EntityInit(config) ==
    [cls |-> "EntityWidget",
     config |-> config,
     show_name |-> config.options.show_name,
     show_unit |-> config.options.show_unit,
     show_icon |-> config.options.show_icon,
     icon |-> config.options.icon,
     show_panel |-> config.options.show_panel,
     precision |-> config.options.precision]

\* EntityWidget.render: value with the precision applied (precision -1 stands
\* for None).
EntityValue(self, entity) ==
    LET parsed == FloatOf(entity.state)
    IN  IF self.precision # (0 - 1) /\ parsed.ok
        THEN FormatFixed(entity.state, parsed.value, self.precision)
        ELSE entity.state

\* x or y of Python for strings.
Or(x, y) == IF x # "" THEN x ELSE y

\* EntityWidget.render: the component returned.  value_text is the value
\* followed by the unit; a label of None is modelled as "".
EntityRender(self, entity) ==
    LET value == IF entity.present THEN EntityValue(self, entity)
                 ELSE PLACEHOLDER_VALUE
        unit == IF entity.present /\ self.show_unit THEN entity.unit ELSE ""
        name == IF entity.present
                THEN Or(self.config.label,
                        Or(entity.friendly_name, entity.entity_id))
                ELSE Or(self.config.label, self.config.entity_id)
        value_text == [value |-> value, unit |-> unit]
        label == IF self.show_name THEN name ELSE ""
        icon == IF self.icon = None /\ self.show_icon
                THEN GetEntityIcon(entity) ELSE self.icon
        color == Or(self.config.color, COLOR_CYAN)
        content == IF icon # None
                   THEN [kind |-> "IconValue", icon |-> icon,
                         value |-> value_text, label |-> label,
                         color |-> color]
                   ELSE [kind |-> "CenteredValue", icon |-> None,
                         value |-> value_text, label |-> label,
                         color |-> ""]
    IN  [panel |-> self.show_panel, content |-> content]

\* The inputs the model draws for the entity widget.
Fire == <<"f", "i", "r", "e">>
MdiFire == Mdi \o Fire

\* "21.456", "21.5", "21.45", "0.5", "2.5", "-3.25", "-0.04", "7" and four
\* texts; for each numeral and each precision up to 3 the double-precision
\* result of the format is the exact rounding.
EntityTexts ==
    {Dec(FALSE, 21456, 3), Dec(FALSE, 215, 1), Dec(FALSE, 2145, 2),
     Dec(FALSE, 5, 1), Dec(FALSE, 25, 1), Dec(TRUE, 325, 2), Dec(TRUE, 4, 2),
     Dec(FALSE, 7, 0),
     Word("unavailable"), Word("on"), Word("nan"), Word("NaN")}

Precisions == (0 - 1)..MaxPrecision

Entities ==
    {NoEntity}
    \cup [present : {TRUE}, entity_id : {"sensor.t"}, state : EntityTexts,
          unit : {"", "C"}, friendly_name : {"", "Living"},
          icon : {None, MdiFire, Fire, Mdi}]

EntityConfigs ==
    [entity_id : {"sensor.t"},
     label : {"", "Temp"},
     color : {""},
     options : [show_name : BOOLEAN, show_unit : BOOLEAN,
                show_icon : BOOLEAN, icon : {None, Fire, MdiFire},
                show_panel : BOOLEAN, precision : Precisions]]

\* A render call that has not been made yet, on the entity of the
\* WidgetState it will be given.
PendingOn(entity) ==
    [done |-> FALSE, entity |-> entity, out |-> NotShown]

(***************************************************************************)
(* The entity widget's operation.                                          *)
(***************************************************************************)
\* EntityWidget.render(ctx, state)
RenderEntity ==
    /\ widget.cls = "EntityWidget"
    /\ shown' = [shown EXCEPT !.done = TRUE,
                              !.out = EntityRender(widget, shown.entity)]
    /\ UNCHANGED <<widget, layoutVars, gaugeVars, platformVars>>

NextEntity == RenderEntity

InitEntity ==
    /\ call = IdleCall
    /\ layout = NoLayout
    /\ gauge = NoGauge
    /\ drawn = NotDrawn
    /\ config_entry = NoEntry
    /\ platform = NoPlatform
    /\ widget \in { EntityInit(c) : c \in EntityConfigs }
    /\ shown \in { PendingOn(e) : e \in Entities }

SpecEntity == InitEntity /\ [][NextEntity]_vars

(***************************************************************************)
(* The entity widget's claims.                                             *)
(***************************************************************************)
IsEntity == widget.cls = "EntityWidget" /\ shown.done

\* The state strings of EntityTexts that float() accepts.
Numeric(text) == text.kind = "dec" \/ text.s \in {"nan", "NaN"}

\* formatted is text written with exactly precision digits after the point:
\* same sign, and no numeral of that precision is nearer to text's value.
NearestWithPrecision(formatted, text, precision) ==
    /\ formatted.kind = "dec"
    /\ formatted.p = precision
    /\ formatted.neg = text.neg
    /\ 2 * Abs(formatted.m * Pow10(text.p) - text.m * Pow10(precision))
          <= Pow10(text.p)

\* C18: EntityWidget shows the state formatted with the configured precision
\* exactly when a precision is configured and the state parses as a number,
\* and the raw state string otherwise; the unit follows the value exactly
\* when show_unit is on and the entity's unit is not empty.
C18_PrecisionAndUnit ==
    (IsEntity /\ shown.entity.present) =>
        LET text == shown.entity.state
            value_text == shown.out.content.value
        IN  /\ IF widget.precision # (0 - 1) /\ Numeric(text)
               THEN IF text.kind = "dec"
                    THEN NearestWithPrecision(value_text.value, text,
                                              widget.precision)
                    ELSE value_text.value = Word("nan")
               ELSE value_text.value = text
            /\ value_text.unit
                  = IF widget.show_unit THEN shown.entity.unit ELSE ""

C18_Witness ==
    /\ IsEntity
    /\ shown.entity.present
    /\ shown.entity.state = Dec(FALSE, 21456, 3)
    /\ shown.entity.unit = "C"
    /\ widget.precision = 1
    /\ widget.show_unit
    /\ shown.out.content.value = [value |-> Dec(FALSE, 215, 1), unit |-> "C"]

\* The icon the claim resolves: the icon option if set; else, with show_icon
\* on and the entity present, the entity's icon without its "mdi:" prefix.
IconAsClaimed ==
    IF widget.icon # None
    THEN widget.icon
    ELSE IF widget.show_icon /\ shown.entity.present
            /\ shown.entity.icon = MdiFire
         THEN Fire
         ELSE None

\* C19: EntityWidget returns an IconValue carrying the resolved icon exactly
\* when an icon was resolved and a CenteredValue otherwise, inside a Panel
\* exactly when show_panel is on.
C19_IconResolved ==
    IsEntity =>
        /\ shown.out.content.kind
              = IF IconAsClaimed # None THEN "IconValue" ELSE "CenteredValue"
        /\ shown.out.content.icon = IconAsClaimed
        /\ shown.out.panel = widget.show_panel

C19_Witness ==
    /\ IsEntity
    /\ widget.icon = None /\ widget.show_icon /\ widget.show_panel
    /\ shown.entity.present /\ shown.entity.icon = MdiFire
    /\ shown.out.panel
    /\ shown.out.content.kind = "IconValue"
    /\ shown.out.content.icon = Fire

(***************************************************************************)
(* widgets/climate.py.  Temperatures and humidity are attribute values: a  *)
(* number or a string, modelled by their text (Dec, Word), or None         *)
(* (Missing).  A component tree is modelled by its icons and texts in      *)
(* order; pixel sizes, gaps and fonts are left out.                        *)
(***************************************************************************)
Missing == [kind |-> "none", neg |-> FALSE, m |-> 0, p |-> 0, s |-> ""]

COLOR_BLUE == "blue"
COLOR_GRAY == "gray"
COLOR_ORANGE == "orange"

\* dict.get(key, default) on the four lookup tables.
HVAC_ACTION_ICONS(action, default) ==
    CASE action \in {"heating", "preheating"} -> "fire"
      [] action = "cooling" -> "snowflake"
      [] action = "idle" -> "thermostat"
      [] action = "off" -> "power-standby"
      [] action = "drying" -> "water-percent"
      [] action = "fan" -> "fan"
      [] OTHER -> default

HVAC_MODE_ICONS(mode, default) ==
    CASE mode = "heat" -> "fire"
      [] mode = "cool" -> "snowflake"
      [] mode = "heat_cool" -> "sun-snowflake-variant"
      [] mode = "auto" -> "thermostat-auto"
      [] mode = "dry" -> "water-percent"
      [] mode = "fan_only" -> "fan"
      [] mode = "off" -> "power-standby"
      [] OTHER -> default

HVAC_ACTION_COLORS(action, default) ==
    CASE action \in {"heating", "preheating"} -> COLOR_ORANGE
      [] action = "cooling" -> COLOR_BLUE
      [] action \in {"idle", "off"} -> COLOR_GRAY
      [] action \in {"drying", "fan"} -> COLOR_CYAN
      [] OTHER -> default

HVAC_MODE_COLORS(mode, default) ==
    CASE mode = "heat" -> COLOR_ORANGE
      [] mode = "cool" -> COLOR_BLUE
      [] mode \in {"heat_cool", "auto", "dry", "fan_only"} -> COLOR_CYAN
      [] mode = "off" -> COLOR_GRAY
      [] OTHER -> default

\* An exception leaving the call.
Raises(exception) == [raised |-> TRUE, exception |-> exception]
Returns(value) == [raised |-> FALSE, value |-> value]

\* _format_temp(value): the text before the degree sign, "--" for None and
\* for what float() rejects; int(num) raises for a nan or an infinity.
FormatTemp(value) ==
    LET parsed == FloatOf(value)
        num == parsed.value
    IN  CASE value = Missing -> Returns(Word("--"))
          [] ~parsed.ok -> Returns(Word("--"))
          [] num.kind = "nan" -> Raises("ValueError")
          [] num.kind # "num" -> Raises("OverflowError")
          [] num.n % num.d = 0 ->
                 Returns(Dec(value.neg /\ num.n # 0, Abs(num.n) \div num.d, 0))
          [] OTHER -> Returns(FormatFixed(value, num, 1))

GetIconAndColorActionFirst(self) ==
    IF self.hvac_action # ""
    THEN [icon |-> HVAC_ACTION_ICONS(self.hvac_action, "thermostat"),
          color |-> HVAC_ACTION_COLORS(self.hvac_action, COLOR_CYAN)]
    ELSE [icon |-> HVAC_MODE_ICONS(self.hvac_mode, "thermostat"),
          color |-> HVAC_MODE_COLORS(self.hvac_mode, COLOR_CYAN)]

\* ClimateDisplay._get_icon_and_color
GetIconAndColor(self) ==
    IF self.hvac_action # "" /\ self.hvac_action # "idle"
    THEN [icon |-> HVAC_ACTION_ICONS(self.hvac_action, "thermostat"),
          color |-> HVAC_ACTION_COLORS(self.hvac_action, COLOR_CYAN)]
    ELSE [icon |-> HVAC_MODE_ICONS(self.hvac_mode, "thermostat"),
          color |-> HVAC_MODE_COLORS(self.hvac_mode, COLOR_CYAN)]

\* The target row: the target icon and the formatted target temperature,
\* when show_target is on and there is a target.
TargetPart(self) ==
    IF self.show_target /\ self.target_temp # Missing
    THEN <<[part |-> "target", text |-> FormatTemp(self.target_temp)]>>
    ELSE <<>>

\* The humidity row: the water icon and f"{int(float(humidity))}%", when
\* show_humidity is on and there is a humidity; nothing when float() or
\* int() raises ValueError; an infinity's OverflowError is not caught.
HumidityPart(self) ==
    LET parsed == FloatOf(self.humidity)
        num == parsed.value
    IN  IF self.show_humidity /\ self.humidity # Missing
        THEN CASE ~parsed.ok -> <<>>
               [] num.kind = "nan" -> <<>>
               [] num.kind # "num" ->
                      <<[part |-> "humidity", text |-> Raises("OverflowError")]>>
               [] OTHER ->
                      <<[part |-> "humidity",
                         text |-> Returns(Dec(num.n < 0 /\ Abs(num.n) >= num.d,
                                              Abs(num.n) \div num.d, 0))]>>
        ELSE <<>>

\* display_text.replace("_", " ").title()
Title(display_text) ==
    CASE display_text = "heat" -> "Heat"
      [] display_text = "fan" -> "Fan"
      [] display_text = "heat_cool" -> "Heat Cool"
      [] display_text = "heating" -> "Heating"
      [] display_text = "idle" -> "Idle"
      [] display_text = "defrosting" -> "Defrosting"
      [] OTHER -> display_text

\* The mode text: the action, or the mode without one, when show_mode is on.
ModePart(self) ==
    LET display_text == Or(self.hvac_action, self.hvac_mode)
    IN  IF self.show_mode /\ display_text # ""
        THEN <<[part |-> "mode", text |-> Returns(Word(Title(display_text)))]>>
        ELSE <<>>

\* The component a builder returns: the tier and arrangement, the main icon
\* with its color, and the texts in order, the current temperature first;
\* or the first exception raised while formatting them.
Compose(self, tier, arrangement, parts) ==
    LET main == GetIconAndColor(self)
        items == <<[part |-> "current", text |-> FormatTemp(self.current_temp)]>>
                 \o parts
        failed == { i \in DOMAIN items : items[i].text.raised }
    IN  IF failed # {}
        THEN items[CHOOSE i \in failed : \A j \in failed : i <= j].text
        ELSE Returns([tier |-> tier, arrangement |-> arrangement,
                      icon |-> main.icon, color |-> main.color,
                      items |-> [i \in DOMAIN items |->
                                    [part |-> items[i].part,
                                     text |-> items[i].text.value]]])

\* ClimateDisplay._build_full
BuildFull(self, width, height) ==
    Compose(self, "full", "column and bottom row",
            TargetPart(self) \o HumidityPart(self) \o ModePart(self))

\* ClimateDisplay._build_medium
BuildMedium(self, width, height) ==
    LET is_tall == 2 * height > 3 * width
        is_small == width < 115
        parts == TargetPart(self) \o HumidityPart(self) \o ModePart(self)
    IN  IF is_tall
        THEN Compose(self, "medium", "vertical", parts)
        ELSE IF is_small
             THEN Compose(self, "medium", "row, two detail rows", parts)
             ELSE Compose(self, "medium", "row, one detail row", parts)

\* ClimateDisplay._build_compact
BuildCompact(self, width, height) ==
    LET has_room_for_details == height >= 65
    IN  IF has_room_for_details
        THEN Compose(self, "compact", "two rows",
                     TargetPart(self) \o HumidityPart(self))
        ELSE Compose(self, "compact", "minimal", <<>>)

RenderDisplayBothNarrowAndLow(self, width, height, size) ==
    LET is_very_narrow == width < 90
        is_narrow == width < 130
    IN  IF is_very_narrow /\ size \in {"MICRO", "TINY"}
        THEN BuildCompact(self, width, height)
        ELSE IF is_narrow \/ size = "SMALL"
             THEN BuildMedium(self, width, height)
             ELSE BuildFull(self, width, height)

\* ClimateDisplay.render on a width x height box; size is what
\* get_size_category(height) returned.
RenderDisplay(self, width, height, size) ==
    LET is_very_narrow == width < 90
        is_narrow == width < 130
    IN  IF is_very_narrow \/ size \in {"MICRO", "TINY"}
        THEN BuildCompact(self, width, height)
        ELSE IF is_narrow \/ size = "SMALL"
             THEN BuildMedium(self, width, height)
             ELSE BuildFull(self, width, height)

\* _climate_placeholder
ClimatePlaceholder ==
    [cls |-> "Column",
     children |-> <<[cls |-> "Icon", name |-> "thermostat"],
                    [cls |-> "Text", text |-> "No Climate Data"]>>]

\* ClimateWidget.__init__
ClimateInit(config) ==
    [cls |-> "ClimateWidget",
     config |-> config,
     show_target |-> config.options.show_target,
     show_humidity |-> config.options.show_humidity,
     show_mode |-> config.options.show_mode]

\* The ClimateDisplay component with the given fields.
ClimateDisplay(current_temp, target_temp, hvac_mode, hvac_action, humidity, name, show_target, show_humidity, show_mode) ==
    [cls |-> "ClimateDisplay",
     current_temp |-> current_temp, target_temp |-> target_temp,
     hvac_mode |-> hvac_mode, hvac_action |-> hvac_action,
     humidity |-> humidity, name |-> name,
     show_target |-> show_target, show_humidity |-> show_humidity,
     show_mode |-> show_mode]

ClimateRenderNoPlaceholder(self, entity) ==
    ClimateDisplay(entity.current_temperature, entity.temperature,
                   entity.state, entity.hvac_action, entity.humidity,
                   Or(self.config.label, entity.friendly_name),
                   self.show_target, self.show_humidity, self.show_mode)

\* ClimateWidget.render
ClimateRender(self, entity) ==
    IF ~entity.present
    THEN ClimatePlaceholder
    ELSE ClimateDisplay(entity.current_temperature, entity.temperature,
                        entity.state, entity.hvac_action, entity.humidity,
                        Or(self.config.label, entity.friendly_name),
                        self.show_target, self.show_humidity, self.show_mode)

\* The inputs the model draws for the climate widget and display.
SizeCategories == {"MICRO", "TINY", "SMALL", "MEDIUM", "LARGE", "FULL"}
BoxWidths == {89, 90, 114, 115, 129, 130}
BoxHeights == {60, 65, 200}
HvacModes == {"heat", "fan"}
HvacActions == {"", "heating", "idle", "defrosting"}
CurrentTemps ==
    {Missing, Dec(FALSE, 215, 1), Word("unavailable"), Word("nan")}
TargetTemps == {Missing, Dec(FALSE, 22, 0)}
Humidities == {Missing, Dec(FALSE, 455, 1), Word("unavailable")}

NoClimate ==
    [present |-> FALSE, state |-> "", friendly_name |-> "",
     current_temperature |-> Missing, temperature |-> Missing,
     hvac_action |-> "", humidity |-> Missing]

ClimateEntities ==
    {NoClimate}
    \cup [present : {TRUE}, state : HvacModes, friendly_name : {"Hall"},
          current_temperature : CurrentTemps, temperature : TargetTemps,
          hvac_action : HvacActions, humidity : Humidities]

ClimateConfigs ==
    [entity_id : {"climate.hall"},
     label : {"", "Heating"},
     options : [show_target : BOOLEAN, show_humidity : BOOLEAN,
                show_mode : BOOLEAN]]

ClimateDisplays ==
    { ClimateDisplay(c, t, m, a, h, "Hall", st, sh, sm) :
        c \in CurrentTemps, t \in TargetTemps, m \in HvacModes,
        a \in HvacActions, h \in Humidities,
        st \in BOOLEAN, sh \in BOOLEAN, sm \in BOOLEAN }

\* A ClimateDisplay.render call that has not been made yet.
PendingBox(width, height, size) ==
    [done |-> FALSE, width |-> width, height |-> height, size |-> size,
     out |-> NotShown]

(***************************************************************************)
(* The climate widget's operations.                                        *)
(***************************************************************************)
\* ClimateWidget.render(ctx, state)
RenderClimate ==
    /\ widget.cls = "ClimateWidget"
    /\ shown' = [shown EXCEPT !.done = TRUE,
                              !.out = ClimateRender(widget, shown.entity)]
    /\ UNCHANGED <<widget, layoutVars, gaugeVars, platformVars>>

\* ClimateDisplay.render(ctx, x, y, width, height)
RenderClimateDisplay ==
    /\ widget.cls = "ClimateDisplay"
    /\ shown' = [shown EXCEPT
                    !.done = TRUE,
                    !.out = RenderDisplay(widget, shown.width, shown.height,
                                          shown.size)]
    /\ UNCHANGED <<widget, layoutVars, gaugeVars, platformVars>>

NextClimate == RenderClimate \/ RenderClimateDisplay

InitClimate ==
    /\ call = IdleCall
    /\ layout = NoLayout
    /\ gauge = NoGauge
    /\ drawn = NotDrawn
    /\ config_entry = NoEntry
    /\ platform = NoPlatform
    /\ \/ /\ widget \in { ClimateInit(c) : c \in ClimateConfigs }
          /\ shown \in { PendingOn(e) : e \in ClimateEntities }
       \/ /\ widget \in ClimateDisplays
          /\ shown \in { PendingBox(w, h, s) :
                           w \in BoxWidths, h \in BoxHeights,
                           s \in SizeCategories }

SpecClimate == InitClimate /\ [][NextClimate]_vars

(***************************************************************************)
(* The climate widget's claims.                                            *)
(***************************************************************************)
IsClimate == widget.cls = "ClimateWidget" /\ shown.done
IsDisplay == widget.cls = "ClimateDisplay" /\ shown.done
Composed == IsDisplay /\ ~shown.out.raised

\* C12: with no entity state ClimateWidget.render returns the placeholder, a
\* column of the thermostat icon and the text "No Climate Data", whatever
\* the label and the show_target, show_humidity and show_mode options.
C12_FixedPlaceholder ==
    (IsClimate /\ ~shown.entity.present) =>
        /\ shown.out.cls = "Column"
        /\ Len(shown.out.children) = 2
        /\ shown.out.children[1] = [cls |-> "Icon", name |-> "thermostat"]
        /\ shown.out.children[2] = [cls |-> "Text", text |-> "No Climate Data"]

C12_Witness ==
    /\ IsClimate
    /\ ~shown.entity.present
    /\ widget.config.label = "Heating"
    /\ ~widget.show_target /\ widget.show_humidity /\ ~widget.show_mode
    /\ shown.out.cls = "Column"

FromActionTables ==
    /\ shown.out.value.icon = HVAC_ACTION_ICONS(widget.hvac_action, "thermostat")
    /\ shown.out.value.color = HVAC_ACTION_COLORS(widget.hvac_action, COLOR_CYAN)

FromModeTables ==
    /\ shown.out.value.icon = HVAC_MODE_ICONS(widget.hvac_mode, "thermostat")
    /\ shown.out.value.color = HVAC_MODE_COLORS(widget.hvac_mode, COLOR_CYAN)

\* An action, or without one a mode, that its table lacks gives the
\* thermostat icon in cyan.
FallsBack ==
    /\ widget.hvac_action = "defrosting"
          => shown.out.value.icon = "thermostat" /\ shown.out.value.color = "cyan"
    /\ (widget.hvac_action = "" /\ widget.hvac_mode = "fan")
          => shown.out.value.icon = "thermostat" /\ shown.out.value.color = "cyan"

IsTall == 2 * shown.height > 3 * shown.width

\* Inside the medium tier the vertical stack is used exactly when
\* height > 1.5 * width.
VerticalWhenTall ==
    shown.out.value.tier = "medium"
        => (shown.out.value.arrangement = "vertical" <=> IsTall)

\* C16 as stated: compact when width < 90 and the height category is MICRO
\* or TINY; otherwise medium when width < 130 or the category is SMALL;
\* otherwise full.
C16_CompactNeedsBoth ==
    Composed =>
        /\ shown.out.value.tier
              = IF shown.width < 90 /\ shown.size \in {"MICRO", "TINY"}
                THEN "compact"
                ELSE IF shown.width < 130 \/ shown.size = "SMALL"
                     THEN "medium" ELSE "full"
        /\ VerticalWhenTall

\* C16: compact when width < 90 or the height category is MICRO or TINY;
\* otherwise medium when width < 130 or the category is SMALL; otherwise
\* full; in the medium tier the vertical stack exactly when
\* height > 1.5 * width.
C16_TierByThresholds ==
    Composed =>
        /\ shown.out.value.tier
              = IF shown.width < 90 \/ shown.size \in {"MICRO", "TINY"}
                THEN "compact"
                ELSE IF shown.width < 130 \/ shown.size = "SMALL"
                     THEN "medium" ELSE "full"
        /\ VerticalWhenTall

C16_Witness ==
    /\ Composed
    /\ shown.width = 89 /\ shown.height = 200
    /\ shown.size \in {"MEDIUM", "LARGE", "FULL"}
    /\ shown.out.value.tier = "compact"

\* The builders that have a humidity row.
HasHumidityRow ==
    shown.out.value.arrangement # "minimal"

\* C17 (ClimateDisplay): a humidity that does not parse as a number is shown
\* as its raw value or as "--", and the rest of the composition is rendered.
C17_UnparsableShown ==
    (Composed /\ widget.show_humidity /\ widget.humidity # Missing
        /\ ~FloatOf(widget.humidity).ok /\ HasHumidityRow)
        => \E i \in DOMAIN shown.out.value.items :
              /\ shown.out.value.items[i].part = "humidity"
              /\ shown.out.value.items[i].text \in {widget.humidity, Word("--")}

(***************************************************************************)
(* widgets/text.py.  A WidgetState is modelled by its entity (the entity   *)
(* of the widget's own entity_id) and its entities (those get_entity       *)
(* finds, by id).                                                          *)
(***************************************************************************)
\* ALIGN_MAP.get(align, "center")
ALIGN_MAP(align, default) ==
    CASE align = "left" -> "start"
      [] align = "center" -> "center"
      [] align = "right" -> "end"
      [] OTHER -> default

THEME_TEXT_PRIMARY == "THEME_TEXT_PRIMARY"

\* TextWidget.__init__
TextInit(config) ==
    [cls |-> "TextWidget",
     config |-> config,
     text |-> config.options.text,
     size |-> config.options.size,
     align |-> config.options.align,
     dynamic_entity_id |-> config.options.entity_id]

\* An entity the WidgetState does not hold.
NoTextEntity == [present |-> FALSE, state |-> ""]

\* state.get_entity(entity_id)
GetEntity(state, entity_id) ==
    IF entity_id \in DOMAIN state.entities
    THEN state.entities[entity_id] ELSE NoTextEntity

GetTextDynamicFirst(self, state) ==
    IF self.dynamic_entity_id # ""
          /\ GetEntity(state, self.dynamic_entity_id).present
    THEN GetEntity(state, self.dynamic_entity_id).state
    ELSE IF state.entity.present THEN state.entity.state ELSE self.text

\* TextWidget._get_text
GetText(self, state) ==
    IF state.entity.present
    THEN state.entity.state
    ELSE IF self.dynamic_entity_id # ""
               /\ GetEntity(state, self.dynamic_entity_id).present
         THEN GetEntity(state, self.dynamic_entity_id).state
         ELSE self.text

\* TextWidget.render: the TextDisplay component returned.
TextRender(self, state) ==
    [cls |-> "TextDisplay",
     text |-> GetText(self, state),
     label |-> self.config.label,
     color |-> Or(self.config.color, THEME_TEXT_PRIMARY),
     align |-> ALIGN_MAP(self.align, "center")]

\* The inputs the model draws for the text widget.
TextConfigs ==
    [entity_id : {"", "sensor.a"},
     label : {"", "Title"},
     color : {""},
     options : [text : {"", "Hello"}, size : {"regular"},
                align : {"left", "center", "right", "justify"},
                entity_id : {"", "sensor.b"}]]

TextEntities(states) ==
    {NoTextEntity} \cup [present : {TRUE}, state : states]

WidgetStates ==
    [entity : TextEntities({"primary", ""}),
     entities : [{"sensor.b"} -> TextEntities({"dynamic"})]]

\* A TextWidget.render call that has not been made yet.
PendingState(state) == [done |-> FALSE, state |-> state, out |-> NotShown]

(***************************************************************************)
(* The text widget's operation.                                            *)
(***************************************************************************)
\* TextWidget.render(ctx, state)
RenderText ==
    /\ widget.cls = "TextWidget"
    /\ shown' = [shown EXCEPT !.done = TRUE,
                              !.out = TextRender(widget, shown.state)]
    /\ UNCHANGED <<widget, layoutVars, gaugeVars, platformVars>>

NextText == RenderText

InitText ==
    /\ call = IdleCall
    /\ layout = NoLayout
    /\ gauge = NoGauge
    /\ drawn = NotDrawn
    /\ config_entry = NoEntry
    /\ platform = NoPlatform
    /\ widget \in { TextInit(c) : c \in TextConfigs }
    /\ shown \in { PendingState(s) : s \in WidgetStates }

SpecText == InitText /\ [][NextText]_vars

(***************************************************************************)
(* The text widget's claim.                                                *)
(***************************************************************************)
IsText == widget.cls = "TextWidget" /\ shown.done

\* The options-provided entity, when the options name one and it resolves.
OptionsEntity ==
    IF widget.config.options.entity_id = "sensor.b"
    THEN shown.state.entities["sensor.b"]
    ELSE NoTextEntity

SplitAvailable == layout.width - 2 * layout.padding

\* C29: whenever the available extent minus the gap is not negative, the
\* split layouts tile the padded extent exactly: slot 0 starts at padding,
\* slot 1 ends at width - padding (height - padding for vertical), the two
\* extents plus the gap equal the available extent, slot 0's extent is
\* int((available - gap) * ratio), and slot 1 gets the rest, the truncation
\* remainder included.
C29_SplitTilesExactly ==
    (Built /\ IsSplit /\ SplitAvailable - layout.gap >= 0)
        => LET first == AxisEnd(1) - AxisStart(1)
               second == AxisEnd(2) - AxisStart(2)
               content == SplitAvailable - layout.gap
           IN  /\ AxisStart(1) = layout.padding
               /\ AxisEnd(2) = layout.width - layout.padding
               /\ first + layout.gap + second = SplitAvailable
               /\ first = IntOf(content * layout.ratio.n, layout.ratio.d)
               /\ second = content - IntOf(content * layout.ratio.n, layout.ratio.d)
               /\ first >= 0 /\ second >= 0

C29_Witness ==
    /\ Built
    /\ layout.cls = "SplitVertical"
    /\ layout.padding = 8 /\ layout.gap = 7 /\ layout.ratio = Rat(1, 2)
    /\ RectOf(1) = <<8, 8, 232, 116>>
    /\ RectOf(2) = <<8, 123, 232, 232>>

(***************************************************************************)
(* A further property of the gauge widget (checked under SpecGauge).       *)
(***************************************************************************)
\* C30: the unit a gauge shows is the configured unit option, and for a
\* widget without one the unit_of_measurement of the entity state passed to
\* that very render (empty when the entity is absent), whatever renders came
\* before.
C30_UnitOfRenderedState ==
    (drawn.done /\ gauge.show_value)
        => drawn.out.text.unit
              = IF gauge.config.options.unit # ""
                THEN gauge.config.options.unit
                ELSE IF drawn.state.present THEN drawn.state.unit ELSE ""

(***************************************************************************)
(* widgets/clock.py.  now is a datetime, modelled by its fields; the       *)
(* strings strftime makes are sequences of characters.  The fonts and the  *)
(* text widths come from the RenderContext, so ClockDisplay.render is      *)
(* modelled by its vertical bands and the texts it draws in them.          *)
(***************************************************************************)
MaxClockHeight == 40

Digit(n) == <<"0", "1", "2", "3", "4", "5", "6", "7", "8", "9">>[n + 1]

\* A number below 100 in two digits: what %H, %I, %M, %S and %d give.
TwoDigits(n) == <<Digit(n \div 10), Digit(n % 10)>>

Colon == <<":">>

\* %I: the hour on the 12-hour clock.
Hour12(hour) == IF hour % 12 = 0 THEN 12 ELSE hour % 12

\* %p
AmPm(now) == IF now.hour < 12 THEN <<"A", "M">> ELSE <<"P", "M">>

\* %a and %b
WeekdayAbbr(weekday) ==
    CASE weekday = 0 -> <<"M", "o", "n">>
      [] weekday = 1 -> <<"T", "u", "e">>
      [] weekday = 2 -> <<"W", "e", "d">>
      [] weekday = 3 -> <<"T", "h", "u">>
      [] weekday = 4 -> <<"F", "r", "i">>
      [] weekday = 5 -> <<"S", "a", "t">>
      [] OTHER -> <<"S", "u", "n">>

MonthAbbr(month) ==
    CASE month = 1 -> <<"J", "a", "n">>
      [] month = 7 -> <<"J", "u", "l">>
      [] month = 12 -> <<"D", "e", "c">>
      [] OTHER -> <<"?", "?", "?">>

\* now.strftime("%a, %b %d")
DateStr(now) ==
    WeekdayAbbr(now.weekday) \o <<",", " ">> \o MonthAbbr(now.month)
        \o <<" ">> \o TwoDigits(now.day)

\* now.strftime("%H:%M"), "%H:%M:%S", "%I:%M", "%I:%M:%S"
TimeStr(now, twelve, seconds) ==
    TwoDigits(IF twelve THEN Hour12(now.hour) ELSE now.hour)
        \o Colon \o TwoDigits(now.minute)
        \o (IF seconds THEN Colon \o TwoDigits(now.second) ELSE <<>>)

\* ClockWidget.__init__
ClockInit(config) ==
    [cls |-> "ClockWidget",
     config |-> config,
     show_date |-> config.options.show_date,
     show_seconds |-> config.options.show_seconds,
     time_format |-> config.options.time_format,
     timezone |-> config.options.timezone]

\* The ClockDisplay component with the given fields (None is <<>>).
ClockDisplay(time_str, date_str, ampm, label, time_color) ==
    [cls |-> "ClockDisplay", time_str |-> time_str, date_str |-> date_str,
     ampm |-> ampm, label |-> label, time_color |-> time_color]

ClockRenderAlwaysSuffix(self, now) ==
    ClockDisplay(TimeStr(now, self.time_format = "12h", self.show_seconds),
                 IF self.show_date THEN DateStr(now) ELSE None,
                 AmPm(now), self.config.label,
                 Or(self.config.color, "white"))

\* ClockWidget.render, now being state.now or else the system's clock.
ClockRender(self, now) ==
    LET twelve == self.time_format = "12h"
        time_str == TimeStr(now, twelve, self.show_seconds)
        ampm == IF twelve THEN AmPm(now) ELSE None
        date_str == IF self.show_date THEN DateStr(now) ELSE None
        color == Or(self.config.color, "white")
    IN  ClockDisplay(time_str, date_str, ampm, self.config.label, color)

ClockDisplayRenderNoGaps(self, y, width, height) ==
    LET padding == IntOf(width * 4, 100)
        inner_height == height - padding * 2
        label_height == IF self.label # None THEN IntOf(inner_height * 12, 100) ELSE 0
        date_height == IF self.date_str # None THEN IntOf(inner_height * 18, 100) ELSE 0
        time_height == inner_height - label_height - date_height
        start_y == y + padding
        time_top == IF self.label # None THEN start_y + label_height + 4 ELSE start_y
    IN  [padding |-> padding, inner_height |-> inner_height,
         label |-> [drawn |-> self.label # None, top |-> start_y,
                    height |-> label_height],
         time |-> [drawn |-> TRUE, top |-> time_top, height |-> time_height,
                   text |-> self.time_str, ampm |-> self.ampm],
         date |-> [drawn |-> self.date_str # None,
                   top |-> time_top + time_height + 4, height |-> date_height]]

\* ClockDisplay.render(ctx, x, y, width, height): the padding, the inner
\* height, and for the label, the time and the date the band each is drawn
\* in (centred on top + height // 2), with the time's text and suffix.
ClockDisplayRender(self, y, width, height) ==
    LET padding == IntOf(width * 4, 100)
        inner_height == height - padding * 2
        gap == 4
        has_label == self.label # None
        has_date == self.date_str # None
        label_height == IF has_label THEN IntOf(inner_height * 12, 100) ELSE 0
        date_height == IF has_date THEN IntOf(inner_height * 18, 100) ELSE 0
        time_height == inner_height - label_height - date_height
                          - (IF has_label THEN gap ELSE 0)
                          - (IF has_date THEN gap ELSE 0)
        total_content == label_height + time_height + date_height
                            + (IF has_label THEN gap ELSE 0)
                            + (IF has_date THEN gap ELSE 0)
        start_y == y + padding + (inner_height - total_content) \div 2
        time_top == IF has_label THEN start_y + label_height + gap ELSE start_y
    IN  [padding |-> padding, inner_height |-> inner_height,
         label |-> [drawn |-> has_label, top |-> start_y,
                    height |-> label_height],
         time |-> [drawn |-> TRUE, top |-> time_top, height |-> time_height,
                   text |-> self.time_str, ampm |-> self.ampm],
         date |-> [drawn |-> has_date, top |-> time_top + time_height + gap,
                   height |-> date_height]]

\* The inputs the model draws for the clock widget and display.
Home == <<"H", "o", "m", "e">>

Nows ==
    [hour : {0, 9, 12, 13, 23}, minute : {0, 5, 59}, second : {0, 7},
     weekday : {0}, month : {1}, day : {5}]
    \cup
    [hour : {0, 9, 12, 13, 23}, minute : {0, 5, 59}, second : {0, 7},
     weekday : {3}, month : {12}, day : {31}]

ClockConfigs ==
    [label : {None, Home},
     color : {""},
     options : [show_date : BOOLEAN, show_seconds : BOOLEAN,
                time_format : {"24h", "12h", "12H", "ampm"},
                timezone : {""}]]

NineOhFive ==
    [hour |-> 9, minute |-> 5, second |-> 7, weekday |-> 0, month |-> 1,
     day |-> 5]

ClockDisplays ==
    { ClockDisplay(TimeStr(NineOhFive, twelve, FALSE), date_str,
                   IF twelve THEN AmPm(NineOhFive) ELSE None, label, "white") :
        twelve \in BOOLEAN, date_str \in {None, DateStr(NineOhFive)},
        label \in {None, Home} }

ClockHeights == 0..MaxClockHeight \cup {120, 240}
ClockWidths == {0, 120, 240}

\* A ClockWidget.render call that has not been made yet.
PendingNow(now) == [done |-> FALSE, now |-> now, out |-> NotShown]

\* A ClockDisplay.render call that has not been made yet.
PendingClockBox(y, width, height) ==
    [done |-> FALSE, y |-> y, width |-> width, height |-> height,
     out |-> NotShown]

(***************************************************************************)
(* The clock widget's operations.                                          *)
(***************************************************************************)
\* ClockWidget.render(ctx, state)
RenderClock ==
    /\ widget.cls = "ClockWidget"
    /\ shown' = [shown EXCEPT !.done = TRUE,
                              !.out = ClockRender(widget, shown.now)]
    /\ UNCHANGED <<widget, layoutVars, gaugeVars, platformVars>>

\* ClockDisplay.render(ctx, x, y, width, height)
RenderClockDisplay ==
    /\ widget.cls = "ClockDisplay"
    /\ shown' = [shown EXCEPT
                    !.done = TRUE,
                    !.out = ClockDisplayRender(widget, shown.y, shown.width,
                                               shown.height)]
    /\ UNCHANGED <<widget, layoutVars, gaugeVars, platformVars>>

NextClock == RenderClock \/ RenderClockDisplay

InitClock ==
    /\ call = IdleCall
    /\ layout = NoLayout
    /\ gauge = NoGauge
    /\ drawn = NotDrawn
    /\ config_entry = NoEntry
    /\ platform = NoPlatform
    /\ \/ /\ widget \in { ClockInit(c) : c \in ClockConfigs }
          /\ shown \in { PendingNow(n) : n \in Nows }
       \/ /\ widget \in ClockDisplays
          /\ shown \in { PendingClockBox(y, w, h) :
                           y \in {0, 8}, w \in ClockWidths, h \in ClockHeights }

SpecClock == InitClock /\ [][NextClock]_vars

(***************************************************************************)
(* The clock widget's claims.                                              *)
(***************************************************************************)
IsClock == widget.cls = "ClockWidget" /\ shown.done
IsClockDisplay == widget.cls = "ClockDisplay" /\ shown.done

\* C21: ClockWidget.render gives the AM/PM suffix exactly when time_format
\* is "12h", a time string with seconds (8 characters, else 5) exactly when
\* show_seconds is on, and the date string exactly when show_date is on;
\* the 24h time at 09:05 is "09:05".
C21_FormatByOptions ==
    IsClock =>
        /\ (shown.out.ampm # None) <=> (widget.time_format = "12h")
        /\ shown.out.ampm # None
              => shown.out.ampm = IF shown.now.hour \in {0, 9}
                                  THEN <<"A", "M">> ELSE <<"P", "M">>
        /\ Len(shown.out.time_str) = IF widget.show_seconds THEN 8 ELSE 5
        /\ (shown.out.date_str # None) <=> widget.show_date
        /\ (shown.out.date_str # None /\ shown.now.day = 5)
              => shown.out.date_str
                    = <<"M", "o", "n", ",", " ", "J", "a", "n", " ", "0", "5">>
        /\ (widget.time_format # "12h" /\ ~widget.show_seconds
               /\ shown.now.hour = 9 /\ shown.now.minute = 5)
              => shown.out.time_str = <<"0", "9", ":", "0", "5">>
        /\ (widget.time_format = "12h" /\ ~widget.show_seconds
               /\ shown.now.hour \in {0, 12} /\ shown.now.minute = 5)
              => shown.out.time_str = <<"1", "2", ":", "0", "5">>

C21_Witness ==
    /\ IsClock
    /\ widget.time_format = "24h" /\ widget.show_date /\ ~widget.show_seconds
    /\ shown.now.hour = 9 /\ shown.now.minute = 5 /\ shown.now.day = 5
    /\ shown.out.time_str = <<"0", "9", ":", "0", "5">>
    /\ shown.out.ampm = None
    /\ shown.out.date_str # None

\* The sum of the bands drawn and of one 4px gap for each optional band.
BandsAndGaps ==
    shown.out.label.height + shown.out.time.height + shown.out.date.height
        + (IF shown.out.label.drawn THEN 4 ELSE 0)
        + (IF shown.out.date.drawn THEN 4 ELSE 0)

\* The heights are the stated shares, and the bands follow each other from
\* the top of the inner box, 4px apart.
SharesAndOrder ==
    /\ shown.out.inner_height = shown.height - 2 * ((shown.width * 4) \div 100)
    /\ shown.out.label.height
          = IF shown.out.label.drawn
            THEN IntOf(shown.out.inner_height * 12, 100) ELSE 0
    /\ shown.out.date.height
          = IF shown.out.date.drawn
            THEN IntOf(shown.out.inner_height * 18, 100) ELSE 0
    /\ BandsAndGaps = shown.out.inner_height
    /\ shown.out.label.top = shown.y + shown.out.padding
    /\ shown.out.time.top
          = IF shown.out.label.drawn
            THEN shown.out.label.top + shown.out.label.height + 4
            ELSE shown.out.label.top
    /\ shown.out.date.top = shown.out.time.top + shown.out.time.height + 4

\* No band drawn begins before the one above it ends.
NoBandOverlap ==
    /\ shown.out.label.drawn
          => shown.out.label.top + shown.out.label.height <= shown.out.time.top
    /\ shown.out.date.drawn
          => /\ shown.out.time.top + shown.out.time.height <= shown.out.date.top
             /\ shown.out.time.top <= shown.out.date.top

MaxScreens == 2

CONF_LAYOUT == "layout"
CONF_WIDGETS == "widgets"
LAYOUT_GRID_2X2 == "grid_2x2"
LAYOUT_GRID_2X3 == "grid_2x3"
LAYOUT_SPLIT == "split"

\* const.py of the source tree defines neither name; the table lists a slot
\* count for layout types const.py does define.
CONF_SCREENS == "screens"
LAYOUT_SLOT_COUNTS ==
    [k \in {LAYOUT_GRID_2X2, LAYOUT_GRID_2X3, LAYOUT_SPLIT} |->
        CASE k = LAYOUT_GRID_2X2 -> 4
          [] k = LAYOUT_GRID_2X3 -> 6
          [] k = LAYOUT_SPLIT -> 2]

\* dict.get(key, default)
DictGet(d, key, default) == IF key \in DOMAIN d THEN d[key] ELSE default

\* f"screen_{screen_idx + 1}_name"
NameKey(screen_idx) == <<"screen_", Digit(screen_idx + 1), "_name">>

\* f"screen_{screen_idx + 1}_slot_{slot_idx + 1}_label"
LabelKey(screen_idx, slot_idx) ==
    <<"screen_", Digit(screen_idx + 1), "_slot_", Digit(slot_idx + 1),
      "_label">>

\* GeekMagicTextEntityDescription(key, screen_index, slot_index, text_type)
GeekMagicTextEntityDescription(key, screen_index, slot_index, text_type) ==
    [key |-> key, screen_index |-> screen_index, slot_index |-> slot_index,
     text_type |-> text_type]

\* The screen-name entity of a screen; it has no slot index.
NameEntity(screen_idx) ==
    GeekMagicTextEntityDescription(NameKey(screen_idx), screen_idx, 0 - 1,
                                   "screen_name")

\* The slot-label entity of a slot of a screen.
LabelEntity(screen_idx, slot_idx) ==
    GeekMagicTextEntityDescription(LabelKey(screen_idx, slot_idx), screen_idx,
                                   slot_idx, "slot_label")

\* A variant of ScreenCandidates that counts the slots of the default layout
\* type whatever the screen's layout type is.
ScreenCandidatesDefaultLayout(screen_idx, screen_config) ==
    LET slot_count == DictGet(LAYOUT_SLOT_COUNTS, LAYOUT_GRID_2X2, 4)
    IN  <<NameEntity(screen_idx)>>
            \o [m \in 1..slot_count |-> LabelEntity(screen_idx, m - 1)]

\* The entities one pass of the loop over the screens considers for a
\* screen, in the order it considers them: the name, then a label for each
\* slot of the screen's layout type.
ScreenCandidates(screen_idx, screen_config) ==
    LET layout_type == DictGet(screen_config, CONF_LAYOUT, LAYOUT_GRID_2X2)
        slot_count == DictGet(LAYOUT_SLOT_COUNTS, layout_type, 4)
    IN  <<NameEntity(screen_idx)>>
            \o [m \in 1..slot_count |-> LabelEntity(screen_idx, m - 1)]

\* The entities the loop considers for screens[from..], in order.
RECURSIVE Candidates(_, _)
Candidates(screens, from) ==
    IF from > Len(screens) THEN <<>>
    ELSE ScreenCandidates(from - 1, screens[from])
            \o Candidates(screens, from + 1)

\* A variant of AddMissing that does not look a key up before adding it.
RECURSIVE AddAll(_, _, _)
AddAll(candidates, current_entity_ids, entities_to_add) ==
    IF candidates = <<>>
    THEN [current_entity_ids |-> current_entity_ids,
          entities_to_add |-> entities_to_add]
    ELSE AddAll(Tail(candidates),
                current_entity_ids \cup {Head(candidates).key},
                Append(entities_to_add, Head(candidates)))

\* "if key not in current_entity_ids: current_entity_ids.add(key);
\* entities_to_add.append(...)", for each entity considered.
RECURSIVE AddMissing(_, _, _)
AddMissing(candidates, current_entity_ids, entities_to_add) ==
    IF candidates = <<>>
    THEN [current_entity_ids |-> current_entity_ids,
          entities_to_add |-> entities_to_add]
    ELSE IF Head(candidates).key \notin current_entity_ids
    THEN AddMissing(Tail(candidates),
                    current_entity_ids \cup {Head(candidates).key},
                    Append(entities_to_add, Head(candidates)))
    ELSE AddMissing(Tail(candidates), current_entity_ids, entities_to_add)

\* One run of async_update_entities on the coordinator's options.
UpdateEntities(options, current_entity_ids) ==
    AddMissing(Candidates(DictGet(options, CONF_SCREENS, <<>>), 1),
               current_entity_ids, <<>>)

\* The number of times a key occurs in a list of entities.
Occurrences(entities, key) ==
    Cardinality({ i \in 1..Len(entities) : entities[i].key = key })

\* The inputs the model draws for the platform.
LayoutTypes == {LAYOUT_GRID_2X2, LAYOUT_GRID_2X3, LAYOUT_SPLIT, "custom"}

PlatformScreens ==
    {[name |-> "Main"]} \cup [name : {"Main"}, layout : LayoutTypes]

AllKeys ==
    { NameKey(s) : s \in 0..(MaxScreens - 1) }
        \cup { LabelKey(s, m) : s \in 0..(MaxScreens - 1), m \in 0..5 }

(***************************************************************************)
(* The platform's operations.  The options change outside the platform     *)
(* (screens added, removed, their layout type changed); the coordinator    *)
(* then calls its listeners, of which async_update_entities is one.        *)
(***************************************************************************)
SetOptions(options) ==
    /\ config_entry' = [config_entry EXCEPT !.options = options]
    /\ platform' = [platform EXCEPT !.ran = FALSE]
    /\ UNCHANGED <<layoutVars, gaugeVars, widgetVars>>

ScreensOf(options) == DictGet(options, CONF_SCREENS, <<>>)

AddScreen ==
    /\ platform.cls = "TextPlatform"
    /\ Len(ScreensOf(config_entry.options)) < MaxScreens
    /\ \E screen_config \in PlatformScreens :
          SetOptions([refresh_interval |-> 10,
                      screens |-> Append(ScreensOf(config_entry.options),
                                         screen_config)])

RemoveScreen ==
    /\ platform.cls = "TextPlatform"
    /\ \E i \in 1..Len(ScreensOf(config_entry.options)) :
          LET screens == ScreensOf(config_entry.options)
          IN  SetOptions([config_entry.options EXCEPT
                            !.screens = SubSeq(screens, 1, i - 1)
                                \o SubSeq(screens, i + 1, Len(screens))])

ChangeLayout ==
    /\ platform.cls = "TextPlatform"
    /\ \E i \in 1..Len(ScreensOf(config_entry.options)) :
       \E screen_config \in PlatformScreens :
          /\ screen_config # config_entry.options.screens[i]
          /\ SetOptions([config_entry.options EXCEPT
                            !.screens[i] = screen_config])

\* async_update_entities(), also run once by async_setup_entry
AsyncUpdateEntities ==
    /\ platform.cls = "TextPlatform"
    /\ LET run == UpdateEntities(config_entry.options,
                                 platform.current_entity_ids)
       IN  platform' =
              [platform EXCEPT
                 !.current_entity_ids = run.current_entity_ids,
                 !.added = [k \in AllKeys |->
                              @[k] + Occurrences(run.entities_to_add, k)],
                 !.batches = IF run.entities_to_add = <<>> THEN @ ELSE @ + 1,
                 !.ran = TRUE]
    /\ UNCHANGED <<config_entry, layoutVars, gaugeVars, widgetVars>>

NextPlatform == AddScreen \/ RemoveScreen \/ ChangeLayout \/ AsyncUpdateEntities

\* async_setup_entry before its first run of async_update_entities: the
\* set of created keys is empty.
InitPlatform ==
    /\ call = IdleCall
    /\ layout = NoLayout
    /\ gauge = NoGauge
    /\ drawn = NotDrawn
    /\ widget = NoWidget
    /\ shown = NotShown
    /\ config_entry \in
          { [cls |-> "ConfigEntry", options |-> o] :
              o \in {[refresh_interval |-> 10],
                     [refresh_interval |-> 10, screens |-> <<>>],
                     [refresh_interval |-> 10,
                      screens |-> <<[name |-> "Main"]>>]} }
    /\ platform = [cls |-> "TextPlatform", current_entity_ids |-> {},
                   added |-> [k \in AllKeys |-> 0], batches |-> 0,
                   ran |-> FALSE]

SpecPlatform == InitPlatform /\ [][NextPlatform]_vars

(***************************************************************************)
(* The text platform's claims about the entities it creates.               *)
(***************************************************************************)
IsPlatform == platform.cls = "TextPlatform"

\* C23: over any sequence of coordinator updates (screens added, removed,
\* their layout type changed) each entity key has been handed to
\* async_add_entities at most once, and exactly the keys handed over are
\* the ones recorded as created.
C23_KeyCreatedAtMostOnce ==
    IsPlatform =>
        \A k \in AllKeys :
            /\ platform.added[k] <= 1
            /\ platform.added[k] = 1 <=> k \in platform.current_entity_ids

C23_Witness ==
    /\ IsPlatform
    /\ platform.ran
    /\ platform.batches = 3
    /\ Len(ScreensOf(config_entry.options)) = 1
    /\ config_entry.options.screens[1] = [name |-> "Main",
                                          layout |-> LAYOUT_GRID_2X3]
    /\ platform.added[NameKey(0)] = 1
    /\ platform.added[NameKey(1)] = 1
    /\ platform.added[LabelKey(0, 5)] = 1

\* The slot count of a screen's layout type as the claim states it: the
\* table's count, 4 for a layout type the table lacks; a screen without a
\* layout type has the default one.
StatedSlotCount(screen_config) ==
    LET layout_type == IF CONF_LAYOUT \in DOMAIN screen_config
                       THEN screen_config[CONF_LAYOUT] ELSE LAYOUT_GRID_2X2
    IN  IF layout_type \in DOMAIN LAYOUT_SLOT_COUNTS
        THEN LAYOUT_SLOT_COUNTS[layout_type] ELSE 4

\* C24: after every run of async_update_entities each screen of the current
\* configuration has had its screen-name entity created, and each slot
\* index below the slot count of the screen's current layout type has had
\* its slot-label entity created.
C24_CurrentScreensCovered ==
    (IsPlatform /\ platform.ran) =>
        \A i \in 1..Len(ScreensOf(config_entry.options)) :
            /\ platform.added[NameKey(i - 1)] >= 1
            /\ \A m \in 0..(StatedSlotCount(config_entry.options.screens[i]) - 1) :
                  platform.added[LabelKey(i - 1, m)] >= 1

C24_Witness ==
    /\ IsPlatform
    /\ platform.ran
    /\ platform.batches >= 2
    /\ ScreensOf(config_entry.options)
          = <<[name |-> "Main", layout |-> "custom"],
              [name |-> "Main", layout |-> LAYOUT_GRID_2X3]>>
    /\ platform.added[LabelKey(0, 3)] = 1
    /\ platform.added[LabelKey(0, 4)] = 0
    /\ platform.added[LabelKey(1, 5)] = 1

(***************************************************************************)
(* The text entities' values.  async_set_value copies and assigns Python   *)
(* objects, so the objects are kept in a heap: a function from addresses   *)
(* to dicts and lists whose members are addresses of other objects.  The   *)
(* options a config entry holds are a tree of objects at the addresses     *)
(* Load gives them; dict(...) and list(...) put their result at a fresh    *)
(* address.                                                                *)
(***************************************************************************)
MaxCalls == 2

OptionsAddr == <<"options", 0, 0>>
ScreensAddr == <<"screens", 0, 0>>
ScreenAddr(i) == <<"screen", i, 0>>
WidgetsAddr(i) == <<"widgets", i, 0>>
WidgetAddr(i, j) == <<"widget", i, j>>

\* The objects of the options a config entry holds.
Load(options) ==
    LET screens == DictGet(options, CONF_SCREENS, <<>>)
        widgets(i) == DictGet(screens[i], CONF_WIDGETS, <<>>)
        addresses ==
            {OptionsAddr}
                \cup (IF CONF_SCREENS \in DOMAIN options
                      THEN {ScreensAddr} ELSE {})
                \cup { ScreenAddr(i) : i \in 1..Len(screens) }
                \cup { WidgetsAddr(i) :
                         i \in { s \in 1..Len(screens) :
                                   CONF_WIDGETS \in DOMAIN screens[s] } }
                \cup UNION { { WidgetAddr(i, j) : j \in 1..Len(widgets(i)) } :
                               i \in 1..Len(screens) }
    IN  [a \in addresses |->
            CASE a[1] = "options" ->
                    [k \in DOMAIN options |->
                        IF k = CONF_SCREENS THEN ScreensAddr ELSE options[k]]
              [] a[1] = "screens" ->
                    [i \in 1..Len(screens) |-> ScreenAddr(i)]
              [] a[1] = "screen" ->
                    [k \in DOMAIN screens[a[2]] |->
                        IF k = CONF_WIDGETS THEN WidgetsAddr(a[2])
                        ELSE screens[a[2]][k]]
              [] a[1] = "widgets" ->
                    [j \in 1..Len(widgets(a[2])) |-> WidgetAddr(a[2], j)]
              [] a[1] = "widget" -> widgets(a[2])[a[3]]]

\* The options an options object stands for.
DerefWidgets(heap, a) == [j \in 1..Len(heap[a]) |-> heap[heap[a][j]]]

DerefScreen(heap, a) ==
    [k \in DOMAIN heap[a] |->
        IF k = CONF_WIDGETS THEN DerefWidgets(heap, heap[a][k])
        ELSE heap[a][k]]

DerefOptions(heap, a) ==
    [k \in DOMAIN heap[a] |->
        IF k = CONF_SCREENS
        THEN [i \in 1..Len(heap[heap[a][k]]) |->
                 DerefScreen(heap, heap[heap[a][k]][i])]
        ELSE heap[a][k]]

\* An address no object of the heap has.
Fresh(heap) ==
    <<"new", Cardinality({ a \in DOMAIN heap : a[1] = "new" }) + 1, 0>>

\* A new object.
New(heap, object) ==
    [heap |-> [a \in DOMAIN heap \cup {Fresh(heap)} |->
                  IF a \in DOMAIN heap THEN heap[a] ELSE object],
     addr |-> Fresh(heap)]

\* A variant of Copy that hands the object itself back.
Alias(heap, addr) == [heap |-> heap, addr |-> addr]

\* dict(d), list(l): a new object with the members of the old one.
Copy(heap, addr) == New(heap, heap[addr])

\* d[key] = value, l[index] = value
Store(heap, addr, key, value) ==
    [heap EXCEPT ![addr] =
        [k \in DOMAIN heap[addr] \cup {key} |->
            IF k = key THEN value ELSE heap[addr][k]]]

\* del d[key]
Delete(heap, addr, key) ==
    [heap EXCEPT ![addr] = [k \in DOMAIN heap[addr] \ {key} |-> heap[addr][k]]]

\* No call of async_update_entry.
NoUpdate == <<"none", 0, 0>>

\* F(e), with e evaluated once.
Let(e, F(_)) == CHOOSE result \in { F(x) : x \in {e} } : TRUE

\* "new_options = dict(entry.options);
\* screens = list(new_options.get(CONF_SCREENS, []))"
CopyOptions(heap, options_addr) ==
    Let(Copy(heap, options_addr), LAMBDA new_options :
    Let(IF CONF_SCREENS \in DOMAIN heap[options_addr]
        THEN Copy(new_options.heap, heap[options_addr][CONF_SCREENS])
        ELSE New(new_options.heap, <<>>), LAMBDA screens :
    [heap |-> screens.heap, new_options |-> new_options.addr,
     screens |-> screens.addr]))

\* A variant of ScreenNameSetValue that builds the renamed screen anew
\* instead of copying the old one.
ScreenNameSetValueNewScreen(heap, options_addr, screen_idx, value) ==
    Let(CopyOptions(heap, options_addr), LAMBDA c :
    IF screen_idx < Len(c.heap[c.screens])
    THEN Let(New(c.heap, [name |-> value]), LAMBDA screen :
         Let(Store(screen.heap, c.screens, screen_idx + 1, screen.addr),
             LAMBDA h1 :
         [heap |-> Store(h1, c.new_options, CONF_SCREENS, c.screens),
          submitted |-> c.new_options]))
    ELSE [heap |-> c.heap, submitted |-> NoUpdate])

\* GeekMagicScreenNameText.async_set_value(value) of the entity of screen
\* screen_idx, the entry holding the options object at options_addr: the
\* heap it leaves and the options object it hands to async_update_entry.
ScreenNameSetValue(heap, options_addr, screen_idx, value) ==
    Let(CopyOptions(heap, options_addr), LAMBDA c :
    IF screen_idx < Len(c.heap[c.screens])
    THEN Let(Copy(c.heap, c.heap[c.screens][screen_idx + 1]), LAMBDA screen :
         Let(Store(screen.heap, c.screens, screen_idx + 1, screen.addr),
             LAMBDA h1 :
         Let(Store(h1, screen.addr, "name", value), LAMBDA h2 :
         [heap |-> Store(h2, c.new_options, CONF_SCREENS, c.screens),
          submitted |-> c.new_options])))
    ELSE [heap |-> c.heap, submitted |-> NoUpdate])

\* The index of the first widget of a list whose "slot" is slot_idx, 0 if
\* there is none.
FirstOnSlot(widgets, slot_idx) ==
    LET on == { j \in 1..Len(widgets) :
                  /\ "slot" \in DOMAIN widgets[j]
                  /\ widgets[j]["slot"] = slot_idx }
    IN  IF on = {} THEN 0 ELSE CHOOSE j \in on : \A o \in on : j <= o

\* A variant of SetLabel that stores the empty label instead of deleting
\* the key.
SetLabelAlways(heap, addr, value) == Store(heap, addr, "label", value)

\* "if value: widgets[i]["label"] = value
\*  elif "label" in widgets[i]: del widgets[i]["label"]"
SetLabel(heap, addr, value) ==
    IF value # "" THEN Store(heap, addr, "label", value)
    ELSE IF "label" \in DOMAIN heap[addr] THEN Delete(heap, addr, "label")
    ELSE heap

\* "screens[screen_idx] = dict(screens[screen_idx]);
\* widgets = list(screens[screen_idx].get(CONF_WIDGETS, []))", on the
\* copies c that CopyOptions made.
CopyWidgets(c, screen_idx) ==
    Let(Copy(c.heap, c.heap[c.screens][screen_idx + 1]), LAMBDA screen :
    Let(Store(screen.heap, c.screens, screen_idx + 1, screen.addr),
        LAMBDA h1 :
    Let(IF CONF_WIDGETS \in DOMAIN h1[screen.addr]
        THEN Copy(h1, h1[screen.addr][CONF_WIDGETS])
        ELSE New(h1, <<>>), LAMBDA widgets :
    [heap |-> widgets.heap, screen |-> screen.addr,
     widgets |-> widgets.addr])))

\* A variant of SlotLabelSetValue that submits the copied options when no
\* widget is on the slot.
SlotLabelSetValueAlwaysSubmits(heap, options_addr, screen_idx, slot_idx, value) ==
    Let(CopyOptions(heap, options_addr), LAMBDA c :
    IF screen_idx >= Len(c.heap[c.screens])
    THEN [heap |-> c.heap, submitted |-> NoUpdate]
    ELSE Let(CopyWidgets(c, screen_idx), LAMBDA w :
         Let(Store(w.heap, w.screen, CONF_WIDGETS, w.widgets), LAMBDA h5 :
         [heap |-> Store(h5, c.new_options, CONF_SCREENS, c.screens),
          submitted |-> c.new_options])))

\* GeekMagicSlotLabelText.async_set_value(value) of the entity of slot
\* slot_idx of screen screen_idx.
SlotLabelSetValue(heap, options_addr, screen_idx, slot_idx, value) ==
    Let(CopyOptions(heap, options_addr), LAMBDA c :
    IF screen_idx >= Len(c.heap[c.screens])
    THEN [heap |-> c.heap, submitted |-> NoUpdate]
    ELSE Let(CopyWidgets(c, screen_idx), LAMBDA w :
         Let(FirstOnSlot(DerefWidgets(w.heap, w.widgets), slot_idx),
             LAMBDA i :
         IF i = 0
         THEN [heap |-> w.heap, submitted |-> NoUpdate]
         ELSE Let(Copy(w.heap, w.heap[w.widgets][i]), LAMBDA widget_copy :
              Let(Store(widget_copy.heap, w.widgets, i, widget_copy.addr),
                  LAMBDA h3 :
              Let(SetLabel(h3, widget_copy.addr, value), LAMBDA h4 :
              Let(Store(h4, w.screen, CONF_WIDGETS, w.widgets), LAMBDA h5 :
              [heap |-> Store(h5, c.new_options, CONF_SCREENS, c.screens),
               submitted |-> c.new_options])))))))

\* GeekMagicSlotLabelText._get_widget_config() on the coordinator's options
GetWidgetConfig(options, screen_idx, slot_idx) ==
    LET screens == DictGet(options, CONF_SCREENS, <<>>)
    IN  IF screen_idx >= Len(screens) THEN [found |-> FALSE]
        ELSE LET widgets == DictGet(screens[screen_idx + 1], CONF_WIDGETS, <<>>)
                 i == FirstOnSlot(widgets, slot_idx)
             IN  IF i = 0 THEN [found |-> FALSE]
                 ELSE [found |-> TRUE, widget |-> widgets[i]]

\* GeekMagicSlotLabelText.native_value
SlotLabelNativeValue(options, screen_idx, slot_idx) ==
    LET widget_config == GetWidgetConfig(options, screen_idx, slot_idx)
    IN  IF widget_config.found
        THEN DictGet(widget_config.widget, "label", "")
        ELSE ""

\* The inputs the model draws for the text entities' values.
Clock0 == [slot |-> 0, type |-> "clock"]
Clock0Old == [slot |-> 0, type |-> "clock", label |-> "Old"]
Entity1 == [slot |-> 1, type |-> "entity", label |-> "Door"]

ValueScreens ==
    {[name |-> "Main", layout |-> LAYOUT_SPLIT,
      widgets |-> <<Clock0, Entity1>>],
     [layout |-> LAYOUT_SPLIT, widgets |-> <<Clock0Old>>],
     [name |-> "Aux", layout |-> LAYOUT_SPLIT, widgets |-> <<>>],
     [name |-> "Aux"]}

ValueOptions ==
    {[refresh_interval |-> 10]}
        \cup { [refresh_interval |-> 10, screens |-> screens] :
                 screens \in {<<>>} \cup { <<a>> : a \in ValueScreens }
                                \cup (ValueScreens \X ValueScreens) }

NewValues == {"", "Hall"}

\* The entities the platform has created: those of the screens there have
\* been, and of three slots of each.
NameEntities == { NameEntity(s) : s \in 0..(MaxScreens - 1) }
LabelEntities == { LabelEntity(s, m) : s \in 0..(MaxScreens - 1), m \in 0..2 }

(***************************************************************************)
(* The text entities' operations.  hass.config_entries.async_update_entry  *)
(* makes the entry hold the options handed to it, and the coordinator's    *)
(* options follow the entry's.                                             *)
(***************************************************************************)
AsyncUpdateEntry(result) ==
    IF result.submitted # NoUpdate
    THEN [config_entry EXCEPT
            !.options = DerefOptions(result.heap, result.submitted)]
    ELSE config_entry

\* What is kept of a call of async_set_value: the entity, the value, the
\* heap before and after it, and the options object it submitted.
CallRecord(entity, value, before, result) ==
    [entity |-> entity, value |-> value, before |-> before,
     after |-> result.heap, submitted |-> result.submitted]

SetScreenName ==
    /\ platform.cls = "TextEntities"
    /\ Len(platform.calls) < MaxCalls
    /\ \E entity \in NameEntities, value \in NewValues :
       \E before \in {Load(config_entry.options)} :
       \E result \in {ScreenNameSetValue(before, OptionsAddr,
                                         entity.screen_index, value)} :
              /\ config_entry' = AsyncUpdateEntry(result)
              /\ platform' = [platform EXCEPT !.calls =
                    Append(@, CallRecord(entity, value, before, result))]
    /\ UNCHANGED <<layoutVars, gaugeVars, widgetVars>>

SetSlotLabel ==
    /\ platform.cls = "TextEntities"
    /\ Len(platform.calls) < MaxCalls
    /\ \E entity \in LabelEntities, value \in NewValues :
       \E before \in {Load(config_entry.options)} :
       \E result \in {SlotLabelSetValue(before, OptionsAddr,
                                        entity.screen_index,
                                        entity.slot_index, value)} :
              /\ config_entry' = AsyncUpdateEntry(result)
              /\ platform' = [platform EXCEPT !.calls =
                    Append(@, CallRecord(entity, value, before, result))]
    /\ UNCHANGED <<layoutVars, gaugeVars, widgetVars>>

NextTextValue == SetScreenName \/ SetSlotLabel

InitTextValue ==
    /\ call = IdleCall
    /\ layout = NoLayout
    /\ gauge = NoGauge
    /\ drawn = NotDrawn
    /\ widget = NoWidget
    /\ shown = NotShown
    /\ config_entry \in { [cls |-> "ConfigEntry", options |-> o, base |-> o] :
                            o \in ValueOptions }
    /\ platform = [cls |-> "TextEntities", calls |-> <<>>]

SpecTextValue == InitTextValue /\ [][NextTextValue]_vars

(***************************************************************************)
(* The text entities' claims about async_set_value and native_value.       *)
(***************************************************************************)
SetValueCalls == IF platform.cls = "TextEntities" THEN 1..Len(platform.calls) ELSE {}
LabelCalls == { n \in SetValueCalls : platform.calls[n].entity.text_type = "slot_label" }

\* The options the entry held before call n, and the options call n
\* handed to async_update_entry.
OptionsBefore(n) == DerefOptions(platform.calls[n].before, OptionsAddr)
OptionsSubmitted(n) ==
    DerefOptions(platform.calls[n].after, platform.calls[n].submitted)
Submits(n) == platform.calls[n].submitted # NoUpdate

\* The screen of call n's entity is in range and a widget is on its slot.
HasWidget(n) ==
    GetWidgetConfig(OptionsBefore(n), platform.calls[n].entity.screen_index,
                    platform.calls[n].entity.slot_index).found

\* Two dicts agree on every key but one.
SameBut(old, new, key) ==
    /\ DOMAIN old \ {key} = DOMAIN new \ {key}
    /\ \A k \in DOMAIN old \ {key} : new[k] = old[k]

\* Two lists have the same length and agree at every index but one.
SameButAt(old, new, index) ==
    /\ Len(old) = Len(new)
    /\ \A i \in 1..Len(old) : i # index => new[i] = old[i]

\* Call n changed the label of the widget on the slot and nothing else.
OnlyLabelChanged(n) ==
    LET old == OptionsBefore(n)
        new == OptionsSubmitted(n)
        s == platform.calls[n].entity.screen_index + 1
        j == FirstOnSlot(old.screens[s].widgets,
                         platform.calls[n].entity.slot_index)
    IN  /\ DOMAIN new = DOMAIN old
        /\ SameBut(old, new, CONF_SCREENS)
        /\ SameButAt(old.screens, new.screens, s)
        /\ DOMAIN new.screens[s] = DOMAIN old.screens[s]
        /\ SameBut(old.screens[s], new.screens[s], CONF_WIDGETS)
        /\ SameButAt(old.screens[s].widgets, new.screens[s].widgets, j)
        /\ SameBut(old.screens[s].widgets[j], new.screens[s].widgets[j],
                   "label")
        /\ IF platform.calls[n].value # ""
           THEN /\ "label" \in DOMAIN new.screens[s].widgets[j]
                /\ new.screens[s].widgets[j].label = platform.calls[n].value
           ELSE "label" \notin DOMAIN new.screens[s].widgets[j]

\* C25: GeekMagicSlotLabelText.async_set_value changes only the label of
\* the widget on its own (screen, slot): every other screen, widget, key of
\* that widget and option key is unchanged in the options it submits; when
\* the screen index is out of range or no widget is on the slot it submits
\* nothing, and the entry keeps its options.
C25_OnlyOwnLabel ==
    \A n \in LabelCalls :
        IF HasWidget(n)
        THEN Submits(n) /\ OnlyLabelChanged(n)
        ELSE /\ ~Submits(n)
             /\ n = Len(platform.calls) => config_entry.options = OptionsBefore(n)

C25_Witness ==
    /\ platform.cls = "TextEntities"
    /\ Len(platform.calls) = 2
    /\ platform.calls[1].entity = LabelEntity(0, 1)
    /\ platform.calls[1].value = "Hall"
    /\ Submits(1)
    /\ OptionsBefore(1).screens[1].widgets = <<Clock0, Entity1>>
    /\ OptionsSubmitted(1).screens[1].widgets
          = <<Clock0, [slot |-> 1, type |-> "entity", label |-> "Hall"]>>
    /\ Len(OptionsBefore(1).screens) = 2
    /\ platform.calls[2].entity = LabelEntity(1, 2)
    /\ ~Submits(2)

\* C26: when a widget is on the slot and the coordinator's options are the
\* ones submitted, native_value after async_set_value(v) is v; for v = ""
\* the widget has no label key any more and native_value is ""; and
\* native_value is "" when no widget is on the slot.
C26_LabelRoundTrip ==
    \A n \in LabelCalls :
        LET entity == platform.calls[n].entity
        IN  IF HasWidget(n)
            THEN /\ Submits(n)
                 /\ n = Len(platform.calls)
                       => config_entry.options = OptionsSubmitted(n)
                 /\ SlotLabelNativeValue(OptionsSubmitted(n),
                                         entity.screen_index, entity.slot_index)
                       = platform.calls[n].value
                 /\ platform.calls[n].value = ""
                       => "label" \notin DOMAIN
                             GetWidgetConfig(OptionsSubmitted(n),
                                             entity.screen_index,
                                             entity.slot_index).widget
            ELSE SlotLabelNativeValue(OptionsBefore(n), entity.screen_index,
                                      entity.slot_index) = ""

C26_Witness ==
    /\ platform.cls = "TextEntities"
    /\ Len(platform.calls) = 2
    /\ platform.calls[1].entity = LabelEntity(0, 0)
    /\ platform.calls[1].value = "Hall"
    /\ platform.calls[2].entity = LabelEntity(0, 0)
    /\ platform.calls[2].value = ""
    /\ ScreensOf(config_entry.base) = <<[layout |-> LAYOUT_SPLIT,
                                         widgets |-> <<Clock0Old>>]>>
    /\ SlotLabelNativeValue(OptionsBefore(1), 0, 0) = "Old"
    /\ SlotLabelNativeValue(OptionsSubmitted(1), 0, 0) = "Hall"
    /\ SlotLabelNativeValue(config_entry.options, 0, 0) = ""
    /\ config_entry.options.screens[1].widgets = <<Clock0>>

\* C27: async_set_value of either entity leaves every object the entry
\* held before the call as it was (the options mapping, the screens list,
\* each screen, each widgets list, each widget); the options it submits
\* are a new object.
C27_NoMutationInPlace ==
    \A n \in SetValueCalls :
        /\ DOMAIN platform.calls[n].before \subseteq DOMAIN platform.calls[n].after
        /\ \A a \in DOMAIN platform.calls[n].before :
              platform.calls[n].after[a] = platform.calls[n].before[a]
        /\ DerefOptions(platform.calls[n].after, OptionsAddr) = OptionsBefore(n)
        /\ Submits(n)
              => platform.calls[n].submitted \notin DOMAIN platform.calls[n].before

C27_Witness ==
    /\ platform.cls = "TextEntities"
    /\ Len(platform.calls) = 2
    /\ platform.calls[1].entity = NameEntity(0)
    /\ platform.calls[1].value = "Hall"
    /\ platform.calls[2].entity = LabelEntity(0, 1)
    /\ platform.calls[2].value = ""
    /\ Submits(1) /\ Submits(2)
    /\ OptionsSubmitted(1) # OptionsBefore(1)
    /\ OptionsSubmitted(2) # OptionsBefore(2)
    /\ WidgetAddr(1, 2) \in DOMAIN platform.calls[2].after
    /\ platform.calls[2].after[WidgetAddr(1, 2)] = Entity1
    /\ DictGet(platform.calls[1].after[ScreenAddr(1)], "name", "") = "Main"

\* The options the entry holds once a call has been made on given options
\* and its update applied.
Applied(options, c) ==
    Let(IF c.entity.text_type = "screen_name"
        THEN ScreenNameSetValue(Load(options), OptionsAddr,
                                c.entity.screen_index, c.value)
        ELSE SlotLabelSetValue(Load(options), OptionsAddr,
                               c.entity.screen_index, c.entity.slot_index,
                               c.value), LAMBDA result :
    IF result.submitted = NoUpdate THEN options
    ELSE DerefOptions(result.heap, result.submitted))

\* The final options show the change of call n.
ChangeKept(n) ==
    LET entity == platform.calls[n].entity
    IN  IF entity.text_type = "screen_name"
        THEN config_entry.options.screens[entity.screen_index + 1].name
                = platform.calls[n].value
        ELSE SlotLabelNativeValue(config_entry.options, entity.screen_index,
                                  entity.slot_index) = platform.calls[n].value

\* C28: two async_set_value calls on different targets, each update
\* applied before the next call starts: the final options are those the
\* other order gives, and they show the change of each call that had a
\* target.
C28_NoLostUpdate ==
    (/\ platform.cls = "TextEntities"
     /\ Len(platform.calls) = 2
     /\ platform.calls[1].entity # platform.calls[2].entity)
        => /\ config_entry.options
                 = Applied(Applied(config_entry.base, platform.calls[1]),
                           platform.calls[2])
           /\ config_entry.options
                 = Applied(Applied(config_entry.base, platform.calls[2]),
                           platform.calls[1])
           /\ \A n \in {1, 2} : Submits(n) => ChangeKept(n)

C28_Witness ==
    /\ platform.cls = "TextEntities"
    /\ Len(platform.calls) = 2
    /\ platform.calls[1].entity = LabelEntity(0, 1)
    /\ platform.calls[1].value = "Hall"
    /\ platform.calls[2].entity = NameEntity(0)
    /\ platform.calls[2].value = "Hall"
    /\ ScreensOf(config_entry.base)
          = <<[name |-> "Main", layout |-> LAYOUT_SPLIT,
               widgets |-> <<Clock0, Entity1>>]>>
    /\ config_entry.options.screens[1]
          = [name |-> "Hall", layout |-> LAYOUT_SPLIT,
             widgets |-> <<Clock0, [slot |-> 1, type |-> "entity",
                                    label |-> "Hall"]>>]

====
